---- MODULE Spec2Model ----
(***************************************************************************)
(* StakeMap: the map page (MapPage), the graph canvas (GraphCanvas) and    *)
(* the external store (stakeholders, relationships, map_layouts) they      *)
(* talk to.  One action per event handler or promise continuation; a       *)
(* handler, the re-render it causes and the effects of that render form    *)
(* one step.  Coordinates are integers in units of 1/1000 px.              *)
(***************************************************************************)
EXTENDS Integers, Sequences, FiniteSets, TLC

(***************************************************************************)
(* Bounds of the explored environment.                                     *)
(***************************************************************************)
MaxEvents == 4

MaxWrites == 2

\* inserts of the add-relationship form in flight at one time
MaxInserts == 1

\* points given to convexHull
MaxPoints == 4

\* companies in a stakeholder list given to buildCompanyColorMap
MaxCompanies == 49

(***************************************************************************)
(* The dataset: rows of the external store that the page does not create.  *)
(***************************************************************************)
Null == "null"

DEFAULT_MAP_ID == "00000000-0000-0000-0000-000000000001"

StakeholderIds == {"s1", "s2", "s3", "s4"}

RowOrder == <<"s1", "s2", "s3", "s4">>

\* with the stakeholders that are only given to the helper functions, and s9,
\* the only stakeholder of a third company
AllStakeholderIds == StakeholderIds \cup {"s5", "s6", "s7", "s8", "s9"}

CompanyIds == {"cA", "cB"}

\* s8 belongs to no company
company_id(s) ==
  CASE s \in {"s1", "s2", "s7"} -> "cA"
    [] s = "s5" -> "cC"
    [] s = "s6" -> "cD"
    [] s = "s8" -> Null
    [] s = "s9" -> "cE"
    [] OTHER -> "cB"

\* the name of cC is the empty string, the name of cD is one space
CompanyName(c) ==
  CASE c = "cA" -> <<"A", "c", "m", "e">>
    [] c = "cC" -> <<>>
    [] c = "cD" -> <<" ">>
    [] c = "cE" -> <<"E", "c", "h", "o">>
    [] OTHER    -> <<"B", "e", "t", "a">>

full_name(s) ==
  CASE s = "s1" -> <<"A", "n", "n">>
    [] s = "s2" -> <<"B", "o", "b">>
    [] s = "s3" -> <<"C", "y">>
    [] s = "s5" -> <<" ">>
    [] s = "s6" -> <<>>
    [] s = "s7" -> <<"a", "C", "M", "E", " ">>
    [] s = "s8" -> <<" ", " ">>
    [] s = "s9" -> <<"E", "d">>
    [] OTHER    -> <<" ", "B", "E", "T", "A">>

hasInfluence(s) == s # "s3"

influence_score(s) ==
  CASE s = "s1" -> 5
    [] s = "s2" -> 2
    [] OTHER    -> 3

RelationshipIds == {"r1", "r2", "r3"}

from_stakeholder_id(r) ==
  CASE r = "r1" -> "s1"
    [] r = "r2" -> "s2"
    [] r = "r13" -> "s1"
    [] r = "r31" -> "s3"
    [] OTHER    -> "s3"

to_stakeholder_id(r) ==
  CASE r = "r1" -> "s2"
    [] r = "r2" -> "s3"
    [] r = "r13" -> "s3"
    [] r = "r31" -> "s1"
    [] OTHER    -> "s4"

Pos(x, y) == [x |-> x, y |-> y]

DropPoints == {Pos(5000, 5000), Pos(7000, 9000)}

InitialLayouts ==
  {[map_id |-> DEFAULT_MAP_ID, stakeholder_id |-> "s3", x |-> 10000, y |-> 20000]}

(***************************************************************************)
(* String helpers: names are sequences of characters.                      *)
(***************************************************************************)
LowerChar(c) ==
  CASE c = "A" -> "a"
    [] c = "B" -> "b"
    [] c = "C" -> "c"
    [] c = "E" -> "e"
    [] c = "M" -> "m"
    [] c = "T" -> "t"
    [] OTHER   -> c

RECURSIVE toLowerCase(_)
toLowerCase(str) ==
  IF str = <<>> THEN <<>> ELSE <<LowerChar(Head(str))>> \o toLowerCase(Tail(str))

RECURSIVE trimStart(_)
trimStart(str) ==
  IF Len(str) > 0 /\ Head(str) = " " THEN trimStart(Tail(str)) ELSE str

RECURSIVE trimEnd(_)
trimEnd(str) ==
  IF Len(str) > 0 /\ str[Len(str)] = " "
    THEN trimEnd(SubSeq(str, 1, Len(str) - 1))
    ELSE str

trim(str) == trimEnd(trimStart(str))

(***************************************************************************)
(* Trigonometry: 1000*cos(2*pi*i/n) and 1000*sin(2*pi*i/n), 1 <= n <= 4.   *)
(***************************************************************************)
Cos1000(i, n) ==
  CASE n = 1 -> 1000
    [] n = 2 -> IF i = 0 THEN 1000 ELSE -1000
    [] n = 3 -> IF i = 0 THEN 1000 ELSE -500
    [] OTHER -> CASE i = 0 -> 1000 [] i = 2 -> -1000 [] OTHER -> 0

Sin1000(i, n) ==
  CASE n = 1 -> 0
    [] n = 2 -> 0
    [] n = 3 -> CASE i = 0 -> 0 [] i = 1 -> 866 [] OTHER -> -866
    [] OTHER -> CASE i = 1 -> 1000 [] i = 3 -> -1000 [] OTHER -> 0

(***************************************************************************)
(* State.                                                                  *)
(***************************************************************************)
VARIABLES
  dbStatus,            \* store: stakeholders.status per stakeholder
  dbRelationships,     \* store: ids of the rows of relationships
  dbLayouts,           \* store: rows of map_layouts
  pageMounted,         \* MapPage is mounted
  stakeholders,        \* MapPage state (sequence of stakeholder ids)
  relationships,       \* MapPage state
  layouts,             \* MapPage state
  selectedStakeholder, \* MapPage state: [id, obj]
  showAddRelationship, \* MapPage state
  loading,             \* MapPage state
  clustering,          \* MapPage state
  deleting,            \* MapPage state
  selectedCompanies,   \* MapPage state
  minInfluence,        \* MapPage state: mapFilters.minInfluence
  editingRelId,        \* MapPage state
  focusedNodeId,       \* GraphCanvas state
  contextMenu,         \* GraphCanvas state: [kind, id, obj]
  cy,                  \* the cytoscape instance held by cyRef; cy.instances counts
                       \* the instances created and not destroyed
  upserts,             \* drag persists in flight
  loads,               \* loadData calls in flight
  clusterOp,           \* the clusterByCompany call in flight
  archiveOp,           \* the deleteStakeholder call in flight
  deleteRelOp,         \* the deleteRelationship call in flight
  issued,              \* requests sent to the store by the last step
  logged,              \* messages passed to console.error by the last step
  called,              \* calls of onContextAction, onAdded and the CSV export
                       \* functions made by the last step
  pressed,             \* where the tap or primary press of the last step landed
  events,              \* number of user events so far
  writes,              \* number of drag-ends and cluster clicks so far
  drops,               \* history: the drag-ends so far, in release order
  addForm,             \* AddRelationshipForm: its state and its inserts in flight
  evaluated            \* the last call of a helper function: [fn, args, value]

storeVars == <<dbStatus, dbRelationships, dbLayouts>>

pageVars ==
  <<stakeholders, relationships, layouts, selectedStakeholder, showAddRelationship,
    loading, clustering, deleting, selectedCompanies, minInfluence, editingRelId>>

canvasVars == <<focusedNodeId, contextMenu, cy>>

asyncVars == <<upserts, loads, clusterOp, archiveOp, deleteRelOp>>

outputVars == <<issued, logged, called, pressed>>

vars ==
  <<storeVars, pageMounted, pageVars, canvasVars, asyncVars, outputVars, events, writes,
    drops, addForm, evaluated>>

NoSelection == [id |-> Null, obj |-> Null]

NoForm ==
  [mounted |-> FALSE, gen |-> 0, fromId |-> "", toId |-> "", error |-> Null,
   inserts |-> {}]

NotEvaluated == [fn |-> Null, args |-> Null, value |-> Null]

NoMenu == [kind |-> Null, id |-> Null, obj |-> Null]

NoCy ==
  [live |-> FALSE, instances |-> 0, nodes |-> <<>>, position |-> [s \in {} |-> Pos(0, 0)],
   edges |-> {}, dimmed |-> {}, focusedNodeId |-> Null]

Idle == [pc |-> "idle", arg |-> Null]

NoCluster == [pc |-> "idle", rows |-> <<>>]

Range(seq) == {seq[i] : i \in 1..Len(seq)}

\* F applied to the value of v (v is evaluated once)
Eval(v, F(_)) == CHOOSE r \in {F(x) : x \in {v}} : TRUE

(***************************************************************************)
(* MapPage: derived values.                                                *)
(***************************************************************************)
\* ids of the entries of companyList
companyList(sts) == {company_id(sts[i]) : i \in 1..Len(sts)}

filteredStakeholdersOf(sts, selected, minInf) ==
  LET keepCompany(s) ==
        IF Cardinality(selected) > 0
             /\ Cardinality(selected) < Cardinality(companyList(sts))
          THEN company_id(s) \in selected
          ELSE TRUE
      keepInfluence(s) ==
        IF minInf > 0
          THEN (IF hasInfluence(s) THEN influence_score(s) ELSE 0) >= minInf
          ELSE TRUE
      keep(s) == keepCompany(s) /\ keepInfluence(s)
  IN  SelectSeq(sts, keep)

filteredStakeholders ==
  filteredStakeholdersOf(stakeholders, selectedCompanies, minInfluence)

(***************************************************************************)
(* GraphCanvas: materialization of the element set.                        *)
(***************************************************************************)
R == 300

layoutMap(lays, id) ==
  IF \E l \in lays : l.stakeholder_id = id
    THEN {CHOOSE l \in lays : l.stakeholder_id = id}
    ELSE {}

\* s.companies?.name: the empty string when the stakeholder has no company
\* (undefined and "" are both falsy)
companies_name(s) ==
  IF company_id(s) = Null THEN <<>> ELSE CompanyName(company_id(s))

\* a filter that compares the names whether or not there is a company name
NameEqualsCompanyWithoutGuard ==
  {s \in AllStakeholderIds :
     trim(toLowerCase(full_name(s))) = trim(toLowerCase(companies_name(s)))}

\* the stakeholders the filter drops:
\* companyName && full_name.trim().toLowerCase() === companyName.trim().toLowerCase()
NameEqualsCompany ==
  {s \in AllStakeholderIds :
     /\ companies_name(s) # <<>>
     /\ trim(toLowerCase(full_name(s))) = trim(toLowerCase(companies_name(s)))}

graphStakeholders(sts) ==
  SelectSeq(sts, LAMBDA s : s \notin NameEqualsCompany)

\* a materializer that takes the angle from the length of the unfiltered list
NodePositionUnfilteredLength(gs, i, lays) ==
  LET layout == layoutMap(lays, gs[i])
  IN  IF layout # {}
        THEN LET l == CHOOSE e \in layout : TRUE IN Pos(l.x, l.y)
        ELSE Pos(R * Cos1000(i - 1, Len(gs) + 1), R * Sin1000(i - 1, Len(gs) + 1))

NodePosition(gs, i, lays) ==
  LET layout == layoutMap(lays, gs[i])
  IN  IF layout # {}
        THEN LET l == CHOOSE e \in layout : TRUE IN Pos(l.x, l.y)
        ELSE Pos(R * Cos1000(i - 1, Len(gs)), R * Sin1000(i - 1, Len(gs)))

\* a materializer that guards an edge by its source only
GraphEdgesSourceOnly(gs, rels) ==
  LET graphIds == Range(gs)
  IN  {r \in rels : from_stakeholder_id(r) \in graphIds}

GraphEdges(gs, rels) ==
  LET graphIds == Range(gs)
  IN  {r \in rels : from_stakeholder_id(r) \in graphIds /\ to_stakeholder_id(r) \in graphIds}

CyOf(gs, rels, lays, focused) ==
  [live |-> TRUE,
   instances |-> 1,
   nodes |-> gs,
   position |-> [s \in Range(gs) |->
                  NodePosition(gs, CHOOSE i \in 1..Len(gs) : gs[i] = s, lays)],
   edges |-> GraphEdges(gs, rels),
   dimmed |-> {},
   focusedNodeId |-> focused]

\* the effect of GraphCanvas: the instance built from the props of a render
BuildCy(canvasMounted, sts, rels, lays, focused) ==
  IF ~canvasMounted \/ Len(sts) = 0
    THEN NoCy
    ELSE Eval(graphStakeholders(sts), LAMBDA gs : CyOf(gs, rels, lays, focused))

\* the instance after a render of MapPage with the current state
RenderedCy ==
  Eval(filteredStakeholders,
       LAMBDA fs : BuildCy(pageMounted /\ ~loading, fs, relationships, layouts,
                           focusedNodeId))

\* a cleanup that clears cyRef and leaves the instance alive
EffectCleanupWithoutDestroy(c) == IF c.live THEN [NoCy EXCEPT !.instances = c.instances] ELSE c

\* the cleanup returned by the effect: cy.destroy(); cyRef.current = null
EffectCleanup(c) == IF c.live THEN [NoCy EXCEPT !.instances = c.instances - 1] ELSE c

\* cyRef after a step that re-renders MapPage: the cleanup of the effect's
\* previous run, then its body with the props of the new render
Rerendered ==
  LET kept == EffectCleanup(cy).instances
      built == RenderedCy'
  IN  [built EXCEPT !.instances = kept + IF built.live THEN 1 ELSE 0]

(***************************************************************************)
(* The store.                                                              *)
(***************************************************************************)
\* .eq('status', 'active') on stakeholders
ActiveStakeholders ==
  SelectSeq(RowOrder \o <<"s9">>,
            LAMBDA s : s \in DOMAIN dbStatus /\ dbStatus[s] = "active")

\* .eq('map_id', DEFAULT_MAP_ID) on map_layouts
MapLayouts == {l \in dbLayouts : l.map_id = DEFAULT_MAP_ID}

LayoutRow(id, p) ==
  [map_id |-> DEFAULT_MAP_ID, stakeholder_id |-> id, x |-> p.x, y |-> p.y]

\* an insert that ignores the conflict target
UpsertRowInsertOnly(table, row) == table \cup {row}

\* upsert with onConflict: 'map_id,stakeholder_id'
UpsertRow(table, row) ==
  {l \in table : ~(l.map_id = row.map_id /\ l.stakeholder_id = row.stakeholder_id)}
    \cup {row}

RECURSIVE UpsertRows(_, _)
UpsertRows(table, rows) ==
  IF rows = <<>> THEN table ELSE UpsertRows(UpsertRow(table, Head(rows)), Tail(rows))

Request(op, table, rows) == [op |-> op, table |-> table, rows |-> rows]

LoadRequests ==
  <<Request("select", "stakeholders", <<>>),
    Request("select", "relationships", <<>>),
    Request("select", "map_layouts", <<>>)>>

\* a loadData call whose three selects have been sent
PendingLoad(owner) ==
  [owner |-> owner, call |-> 0, fetched |-> FALSE, error |-> Null, stakeholders |-> <<>>,
   relationships |-> {}, layouts |-> {}]

\* the loadData call made through onLayoutChange by the handler of drop number seq
LayoutChangeLoad(seq) == [PendingLoad("drag") EXCEPT !.call = seq]

Quiet == issued' = <<>> /\ logged' = <<>> /\ called' = <<>> /\ pressed' = Null

\* a step taken by the user / a step taken by a promise continuation
UserEvent ==
  /\ events < MaxEvents /\ events' = events + 1 /\ writes' = writes
  /\ evaluated' = evaluated

\* a user event that writes layout entries
WriteEvent ==
  /\ events < MaxEvents /\ events' = events + 1
  /\ writes < MaxWrites /\ writes' = writes + 1
  /\ evaluated' = evaluated

Continuation == events' = events /\ writes' = writes /\ evaluated' = evaluated

(***************************************************************************)
(* AddRelationshipForm as rendered by MapPage.                             *)
(***************************************************************************)
\* the prop fromStakeholderId={selectedStakeholder?.id}, '' when there is none
FormProp(sel) == IF sel.id = Null THEN "" ELSE sel.id

\* the form after the render that follows a step: unmounted with the panel,
\* mounted with fromId taken from the prop, fromId following a changed prop
RenderedFormOf(f) ==
  IF ~(pageMounted' /\ ~loading' /\ showAddRelationship')
    THEN [f EXCEPT !.mounted = FALSE, !.fromId = "", !.toId = "", !.error = Null]
    ELSE IF ~f.mounted
           THEN [f EXCEPT !.mounted = TRUE, !.gen = f.gen + 1,
                          !.fromId = FormProp(selectedStakeholder'), !.toId = "",
                          !.error = Null]
           ELSE IF /\ FormProp(selectedStakeholder') # FormProp(selectedStakeholder)
                   /\ FormProp(selectedStakeholder') # ""
                  THEN [f EXCEPT !.fromId = FormProp(selectedStakeholder')]
                  ELSE f

(***************************************************************************)
(* Initial state: MapPage has mounted and its effect has called loadData.  *)
(***************************************************************************)
InitPage ==
  /\ dbRelationships = RelationshipIds
  /\ dbLayouts = InitialLayouts
  /\ pageMounted = TRUE
  /\ stakeholders = <<>>
  /\ relationships = {}
  /\ layouts = {}
  /\ selectedStakeholder = NoSelection
  /\ showAddRelationship = FALSE
  /\ loading = TRUE
  /\ clustering = FALSE
  /\ deleting = FALSE
  /\ selectedCompanies = {}
  /\ minInfluence = 0
  /\ editingRelId = Null
  /\ focusedNodeId = Null
  /\ contextMenu = NoMenu
  /\ cy = NoCy
  /\ upserts = {}
  /\ loads = {PendingLoad("mount")}
  /\ clusterOp = NoCluster
  /\ archiveOp = Idle
  /\ deleteRelOp = Idle
  /\ issued = LoadRequests
  /\ logged = <<>>
  /\ called = <<>>
  /\ pressed = Null
  /\ events = 0
  /\ writes = 0
  /\ drops = <<>>
  /\ addForm = NoForm
  /\ evaluated = NotEvaluated

Init == dbStatus = [s \in StakeholderIds |-> "active"] /\ InitPage

\* a store with three companies: s2 was archived earlier, s9 is the only
\* stakeholder of cE
InitThreeCompanies ==
  /\ dbStatus = [s \in StakeholderIds \cup {"s9"} |->
                  IF s = "s2" THEN "archived" ELSE "active"]
  /\ InitPage

(***************************************************************************)
(* loadData.                                                               *)
(***************************************************************************)
\* a load that stores an entry for every active stakeholder that has none
LoadFetchStoresMissingEntries(l) ==
  /\ UNCHANGED drops
  /\ l \in loads /\ ~l.fetched
  /\ loads' = (loads \ {l}) \cup
       {[l EXCEPT !.fetched = TRUE, !.stakeholders = ActiveStakeholders,
                  !.relationships = dbRelationships, !.layouts = MapLayouts]}
  /\ dbLayouts' = dbLayouts \cup
       {LayoutRow(id, Pos(0, 0)) :
          id \in {n \in Range(ActiveStakeholders) : layoutMap(MapLayouts, n) = {}}}
  /\ UNCHANGED <<dbStatus, dbRelationships, pageMounted, pageVars, canvasVars, upserts,
                 clusterOp, archiveOp, deleteRelOp>>
  /\ Quiet /\ Continuation
  /\ addForm' = RenderedFormOf(addForm)

\* the store answers the three selects of one loadData call
LoadFetch(l) ==
  /\ UNCHANGED drops
  /\ l \in loads /\ ~l.fetched
  /\ loads' = (loads \ {l}) \cup
       {[l EXCEPT !.fetched = TRUE, !.stakeholders = ActiveStakeholders,
                  !.relationships = dbRelationships, !.layouts = MapLayouts]}
  /\ UNCHANGED <<storeVars, pageMounted, pageVars, canvasVars, upserts, clusterOp,
                 archiveOp, deleteRelOp>>
  /\ Quiet /\ Continuation
  /\ addForm' = RenderedFormOf(addForm)

\* one of the three selects fails: its result has data null
LoadFetchFail(l, table) ==
  /\ UNCHANGED drops
  /\ l \in loads /\ ~l.fetched
  /\ loads' = (loads \ {l}) \cup
       {[l EXCEPT !.fetched = TRUE, !.error = table,
                  !.stakeholders = IF table = "stakeholders" THEN <<>> ELSE ActiveStakeholders,
                  !.relationships = IF table = "relationships" THEN {} ELSE dbRelationships,
                  !.layouts = IF table = "map_layouts" THEN {} ELSE MapLayouts]}
  /\ UNCHANGED <<storeVars, pageMounted, pageVars, canvasVars, upserts, clusterOp,
                 archiveOp, deleteRelOp>>
  /\ Quiet /\ Continuation
  /\ addForm' = RenderedFormOf(addForm)

\* objects of the previous stakeholders array become stale
StaleSelection(sel) == IF sel.obj = "cur" THEN [sel EXCEPT !.obj = "old"] ELSE sel

StaleMenu(menu, sel) ==
  IF menu.obj = "cur"
    THEN [menu EXCEPT !.obj = IF sel.id = menu.id /\ sel.obj = "cur"
                                 THEN "selected" ELSE "old"]
    ELSE menu

\* the effect that initializes selectedCompanies when companyList changes
InitSelectedCompanies(sts, selected) ==
  IF Cardinality(companyList(sts)) > 0 /\ Cardinality(selected) = 0
    THEN companyList(sts)
    ELSE selected

\* a loadData that keeps the layouts it has while another call is pending
LoadResolveWaitsForOthers(l) ==
  /\ l \in loads /\ l.fetched
  /\ loads' = loads \ {l}
  /\ IF pageMounted
       THEN /\ stakeholders' = l.stakeholders
            /\ relationships' = l.relationships
            /\ layouts' = IF loads' = {} THEN l.layouts ELSE layouts
            /\ loading' = FALSE
            /\ selectedCompanies' = InitSelectedCompanies(l.stakeholders, selectedCompanies)
            /\ selectedStakeholder' = StaleSelection(selectedStakeholder)
            /\ contextMenu' = StaleMenu(contextMenu, selectedStakeholder)
            /\ clustering' = IF l.owner = "cluster" THEN FALSE ELSE clustering
            /\ deleting' = IF l.owner = "archive" THEN FALSE ELSE deleting
       ELSE UNCHANGED <<stakeholders, relationships, layouts, loading, selectedCompanies,
                        selectedStakeholder, contextMenu, clustering, deleting>>
  /\ clusterOp' = IF l.owner = "cluster" THEN NoCluster ELSE clusterOp
  /\ archiveOp' = IF l.owner = "archive" THEN Idle ELSE archiveOp
  /\ deleteRelOp' = IF l.owner = "delrel" THEN Idle ELSE deleteRelOp
  /\ UNCHANGED <<storeVars, pageMounted, showAddRelationship, minInfluence, editingRelId,
                 focusedNodeId, upserts>>
  /\ cy' = Rerendered
  /\ drops' = IF pageMounted
               THEN [i \in DOMAIN drops |-> [drops[i] EXCEPT !.reloaded = TRUE]]
               ELSE drops
  /\ Quiet /\ Continuation
  /\ addForm' = RenderedFormOf(addForm)

\* the awaited selects resolve; loadData sets the page state, then the caller
\* awaiting loadData continues
LoadResolve(l) ==
  /\ l \in loads /\ l.fetched
  /\ loads' = loads \ {l}
  /\ IF pageMounted
       THEN /\ stakeholders' = l.stakeholders
            /\ relationships' = l.relationships
            /\ layouts' = l.layouts
            /\ loading' = FALSE
            /\ selectedCompanies' = InitSelectedCompanies(l.stakeholders, selectedCompanies)
            /\ selectedStakeholder' = StaleSelection(selectedStakeholder)
            /\ contextMenu' = StaleMenu(contextMenu, selectedStakeholder)
            /\ clustering' = IF l.owner = "cluster" THEN FALSE ELSE clustering
            /\ deleting' = IF l.owner = "archive" THEN FALSE ELSE deleting
       ELSE UNCHANGED <<stakeholders, relationships, layouts, loading, selectedCompanies,
                        selectedStakeholder, contextMenu, clustering, deleting>>
  /\ clusterOp' = IF l.owner = "cluster" THEN NoCluster ELSE clusterOp
  /\ archiveOp' = IF l.owner = "archive" THEN Idle ELSE archiveOp
  /\ deleteRelOp' = IF l.owner = "delrel" THEN Idle ELSE deleteRelOp
  /\ UNCHANGED <<storeVars, pageMounted, showAddRelationship, minInfluence, editingRelId,
                 focusedNodeId, upserts>>
  /\ cy' = Rerendered
  /\ drops' = IF pageMounted
               THEN [i \in DOMAIN drops |-> [drops[i] EXCEPT !.reloaded = TRUE]]
               ELSE drops
  /\ Quiet /\ Continuation
  /\ addForm' = RenderedFormOf(addForm)

(***************************************************************************)
(* GraphCanvas: tap handlers.                                              *)
(***************************************************************************)
CyElements(c) == Range(c.nodes) \cup c.edges

\* node.neighborhood().add(node)
ClosedNeighborhood(c, n) ==
  LET adjacent == {r \in c.edges : from_stakeholder_id(r) = n \/ to_stakeholder_id(r) = n}
  IN  {n} \cup adjacent
        \cup {from_stakeholder_id(r) : r \in adjacent}
        \cup {to_stakeholder_id(r) : r \in adjacent}

\* cy.on('tap', 'node', ...)
TapNode(n) ==
  /\ UNCHANGED drops
  /\ UserEvent
  /\ cy.live /\ n \in Range(cy.nodes)
  /\ selectedStakeholder' = [id |-> n, obj |-> "cur"]
  /\ focusedNodeId' = IF cy.focusedNodeId = n THEN Null ELSE n
  /\ contextMenu' = IF contextMenu.obj = "selected"
                      THEN [contextMenu EXCEPT !.obj = "old"] ELSE contextMenu
  /\ UNCHANGED <<storeVars, pageMounted, stakeholders, relationships, layouts,
                 showAddRelationship, loading, clustering, deleting, selectedCompanies,
                 minInfluence, editingRelId, asyncVars>>
  /\ IF selectedStakeholder' # selectedStakeholder
       THEN cy' = Rerendered
       ELSE cy' = [cy EXCEPT !.dimmed = IF cy.focusedNodeId = n
                                          THEN {}
                                          ELSE CyElements(cy) \ ClosedNeighborhood(cy, n)]
  /\ issued' = <<>> /\ logged' = <<>> /\ called' = <<>> /\ pressed' = n
  /\ addForm' = RenderedFormOf(addForm)

\* a handler that clears the focus but leaves the classes of the elements
TapBackgroundKeepsDimming ==
  /\ UNCHANGED drops
  /\ UserEvent
  /\ cy.live
  /\ focusedNodeId' = Null
  /\ cy' = cy
  /\ UNCHANGED <<storeVars, pageMounted, pageVars, contextMenu, asyncVars>>
  /\ issued' = <<>> /\ logged' = <<>> /\ called' = <<>> /\ pressed' = "canvas"
  /\ addForm' = RenderedFormOf(addForm)

\* cy.on('tap', ...) with the core as target
TapBackground ==
  /\ UNCHANGED drops
  /\ UserEvent
  /\ cy.live
  /\ focusedNodeId' = Null
  /\ cy' = [cy EXCEPT !.dimmed = {}]
  /\ UNCHANGED <<storeVars, pageMounted, pageVars, contextMenu, asyncVars>>
  /\ issued' = <<>> /\ logged' = <<>> /\ called' = <<>> /\ pressed' = "canvas"
  /\ addForm' = RenderedFormOf(addForm)

(***************************************************************************)
(* GraphCanvas: drag-end persistence.                                      *)
(***************************************************************************)
\* a handler that sends the position the node had before the drag
DragFreeSendsOldPosition(n, p) ==
  /\ WriteEvent
  /\ cy.live /\ n \in Range(cy.nodes)
  /\ cy' = [cy EXCEPT !.position[n] = p]
  /\ upserts' = upserts \cup {[seq |-> Len(drops) + 1,
                                row |-> LayoutRow(n, cy.position[n])]}
  /\ issued' = <<Request("upsert", "map_layouts", <<LayoutRow(n, cy.position[n])>>)>>
  /\ logged' = <<>> /\ called' = <<>> /\ pressed' = Null
  /\ drops' = Append([i \in DOMAIN drops |->
                       IF drops[i].result = "pending"
                         THEN [drops[i] EXCEPT !.overlapped = TRUE] ELSE drops[i]],
                     [row |-> LayoutRow(n, cy.position[n]), result |-> "pending",
                      overlapped |-> upserts # {}, reloaded |-> FALSE])
  /\ UNCHANGED <<storeVars, pageMounted, pageVars, focusedNodeId, contextMenu, loads,
                 clusterOp, archiveOp, deleteRelOp>>
  /\ addForm' = RenderedFormOf(addForm)

\* cy.on('dragfree', 'node', ...) up to the await of the upsert
DragFree(n, p) ==
  /\ WriteEvent
  /\ cy.live /\ n \in Range(cy.nodes)
  /\ cy' = [cy EXCEPT !.position[n] = p]
  /\ upserts' = upserts \cup {[seq |-> Len(drops) + 1, row |-> LayoutRow(n, p)]}
  /\ issued' = <<Request("upsert", "map_layouts", <<LayoutRow(n, p)>>)>>
  /\ logged' = <<>> /\ called' = <<>> /\ pressed' = Null
  /\ drops' = Append([i \in DOMAIN drops |->
                       IF drops[i].result = "pending"
                         THEN [drops[i] EXCEPT !.overlapped = TRUE] ELSE drops[i]],
                     [row |-> LayoutRow(n, p), result |-> "pending",
                      overlapped |-> upserts # {}, reloaded |-> FALSE])
  /\ UNCHANGED <<storeVars, pageMounted, pageVars, focusedNodeId, contextMenu, loads,
                 clusterOp, archiveOp, deleteRelOp>>
  /\ addForm' = RenderedFormOf(addForm)

\* a success path whose write replaces every entry of the table
DragUpsertOkReplacesTable(u) ==
  /\ Continuation
  /\ u \in upserts
  /\ upserts' = upserts \ {u}
  /\ dbLayouts' = {u.row}
  /\ loads' = loads \cup {LayoutChangeLoad(u.seq)}
  /\ issued' = LoadRequests
  /\ logged' = <<>> /\ called' = <<>> /\ pressed' = Null
  /\ drops' = [drops EXCEPT ![u.seq].result = "saved", ![u.seq].reloaded = FALSE]
  /\ UNCHANGED <<dbStatus, dbRelationships, pageMounted, pageVars, canvasVars, clusterOp,
                 archiveOp, deleteRelOp>>
  /\ addForm' = RenderedFormOf(addForm)

\* the upsert succeeds: onLayoutChange (loadData) is called
DragUpsertOk(u) ==
  /\ Continuation
  /\ u \in upserts
  /\ upserts' = upserts \ {u}
  /\ dbLayouts' = UpsertRow(dbLayouts, u.row)
  /\ loads' = loads \cup {LayoutChangeLoad(u.seq)}
  /\ issued' = LoadRequests
  /\ logged' = <<>> /\ called' = <<>> /\ pressed' = Null
  /\ drops' = [drops EXCEPT ![u.seq].result = "saved", ![u.seq].reloaded = FALSE]
  /\ UNCHANGED <<dbStatus, dbRelationships, pageMounted, pageVars, canvasVars, clusterOp,
                 archiveOp, deleteRelOp>>
  /\ addForm' = RenderedFormOf(addForm)

\* the upsert fails: the error is caught and logged
DragUpsertFail(u) ==
  /\ Continuation
  /\ u \in upserts
  /\ upserts' = upserts \ {u}
  /\ logged' = <<"Failed to save layout:">>
  /\ issued' = <<>> /\ called' = <<>> /\ pressed' = Null
  /\ drops' = [drops EXCEPT ![u.seq].result = "failed", ![u.seq].reloaded = FALSE]
  /\ UNCHANGED <<storeVars, pageMounted, pageVars, canvasVars, loads, clusterOp, archiveOp,
                 deleteRelOp>>
  /\ addForm' = RenderedFormOf(addForm)

(***************************************************************************)
(* clusterByCompany.                                                       *)
(***************************************************************************)
clusterRadius == 80

ClusterRingRadius == 350

PerMemberRadius == 25

Min(a, b) == IF a <= b THEN a ELSE b

\* Array.from(byCompany.keys()): company ids in first-seen order
RECURSIVE CompanyKeys(_)
CompanyKeys(sts) ==
  IF sts = <<>>
    THEN <<>>
    ELSE LET rest == CompanyKeys(SubSeq(sts, 1, Len(sts) - 1))
             key == company_id(sts[Len(sts)])
         IN  IF key \in Range(rest) THEN rest ELSE Append(rest, key)

Members(sts, key) == SelectSeq(sts, LAMBDA s : company_id(s) = key)

\* the member offset alone, without the company's ring position
ClusterPositionAroundOrigin(ci, n, mi, m) ==
  LET r == Min((clusterRadius * 6) \div 10, PerMemberRadius * m)
  IN  Pos(r * Cos1000(mi, m), r * Sin1000(mi, m))

ClusterPosition(ci, n, mi, m) ==
  LET r == Min((clusterRadius * 6) \div 10, PerMemberRadius * m)
  IN  Pos(ClusterRingRadius * Cos1000(ci, n) + r * Cos1000(mi, m),
          ClusterRingRadius * Sin1000(ci, n) + r * Sin1000(mi, m))

RECURSIVE Flatten(_)
Flatten(seqs) == IF seqs = <<>> THEN <<>> ELSE Head(seqs) \o Flatten(Tail(seqs))

ClusterRows(sts, companies) ==
  LET rowsOf(ci) ==
        Eval(Members(sts, companies[ci]),
             LAMBDA members :
               [mi \in 1..Len(members) |->
                  LayoutRow(members[mi],
                            ClusterPosition(ci - 1, Len(companies), mi - 1, Len(members)))])
  IN  Flatten([ci \in 1..Len(companies) |-> rowsOf(ci)])

layoutsToUpsert(sts) ==
  Eval(CompanyKeys(sts), LAMBDA companies : ClusterRows(sts, companies))

\* a clusterByCompany that does not set the clustering flag
ClusterClickWithoutFlag ==
  /\ UNCHANGED drops
  /\ WriteEvent
  /\ pageMounted /\ ~loading
  /\ ~clustering /\ Len(stakeholders) # 0
  /\ clusterOp.pc = "idle"
  /\ clustering' = clustering
  /\ clusterOp' = [pc |-> "upsert", rows |-> layoutsToUpsert(stakeholders)]
  /\ issued' = <<Request("upsert", "map_layouts", clusterOp'.rows)>>
  /\ logged' = <<>> /\ called' = <<>> /\ pressed' = "cluster"
  /\ UNCHANGED <<storeVars, pageMounted, stakeholders, relationships, layouts,
                 selectedStakeholder, showAddRelationship, loading, deleting,
                 selectedCompanies, minInfluence, editingRelId, focusedNodeId, contextMenu,
                 upserts, loads, archiveOp, deleteRelOp>>
  /\ cy' = Rerendered
  /\ addForm' = RenderedFormOf(addForm)

\* click on "Cluster by Company", up to the await of the batch upsert
ClusterClick ==
  /\ UNCHANGED drops
  /\ WriteEvent
  /\ pageMounted /\ ~loading
  /\ ~clustering /\ Len(stakeholders) # 0
  /\ clusterOp.pc = "idle"
  /\ clustering' = TRUE
  /\ clusterOp' = [pc |-> "upsert", rows |-> layoutsToUpsert(stakeholders)]
  /\ issued' = <<Request("upsert", "map_layouts", clusterOp'.rows)>>
  /\ logged' = <<>> /\ called' = <<>> /\ pressed' = "cluster"
  /\ UNCHANGED <<storeVars, pageMounted, stakeholders, relationships, layouts,
                 selectedStakeholder, showAddRelationship, loading, deleting,
                 selectedCompanies, minInfluence, editingRelId, focusedNodeId, contextMenu,
                 upserts, loads, archiveOp, deleteRelOp>>
  /\ cy' = Rerendered
  /\ addForm' = RenderedFormOf(addForm)

\* a press on the button while it is disabled (clustering, or no stakeholders,
\* for which clusterByCompany would return at once): no handler runs
ClusterClickDisabled ==
  /\ UNCHANGED drops
  /\ UserEvent
  /\ pageMounted /\ ~loading
  /\ clustering \/ Len(stakeholders) = 0
  /\ issued' = <<>> /\ logged' = <<>> /\ called' = <<>> /\ pressed' = "cluster"
  /\ UNCHANGED <<storeVars, pageMounted, pageVars, canvasVars, asyncVars>>
  /\ addForm' = RenderedFormOf(addForm)

\* the batch upsert succeeds: loadData is called and awaited
ClusterUpsertOk ==
  /\ UNCHANGED drops
  /\ Continuation
  /\ clusterOp.pc = "upsert"
  /\ dbLayouts' = UpsertRows(dbLayouts, clusterOp.rows)
  /\ clusterOp' = [clusterOp EXCEPT !.pc = "reload"]
  /\ loads' = loads \cup {PendingLoad("cluster")}
  /\ issued' = LoadRequests
  /\ logged' = <<>> /\ called' = <<>> /\ pressed' = Null
  /\ UNCHANGED <<dbStatus, dbRelationships, pageMounted, pageVars, canvasVars, upserts,
                 archiveOp, deleteRelOp>>
  /\ addForm' = RenderedFormOf(addForm)

\* a failure path that reloads the dataset
ClusterUpsertFailReloads ==
  /\ UNCHANGED drops
  /\ Continuation
  /\ clusterOp.pc = "upsert"
  /\ clusterOp' = NoCluster
  /\ clustering' = IF pageMounted THEN FALSE ELSE clustering
  /\ logged' = <<"Cluster failed:">>
  /\ issued' = LoadRequests /\ called' = <<>> /\ pressed' = Null
  /\ loads' = loads \cup {PendingLoad("drag")}
  /\ UNCHANGED <<storeVars, pageMounted, stakeholders, relationships, layouts,
                 selectedStakeholder, showAddRelationship, loading, deleting,
                 selectedCompanies, minInfluence, editingRelId, focusedNodeId, contextMenu,
                 upserts, archiveOp, deleteRelOp>>
  /\ cy' = IF clustering' # clustering THEN Rerendered ELSE cy
  /\ addForm' = RenderedFormOf(addForm)

\* the batch upsert fails: catch logs, finally resets the flag
ClusterUpsertFail ==
  /\ UNCHANGED drops
  /\ Continuation
  /\ clusterOp.pc = "upsert"
  /\ clusterOp' = NoCluster
  /\ clustering' = IF pageMounted THEN FALSE ELSE clustering
  /\ logged' = <<"Cluster failed:">>
  /\ issued' = <<>> /\ called' = <<>> /\ pressed' = Null
  /\ UNCHANGED <<storeVars, pageMounted, stakeholders, relationships, layouts,
                 selectedStakeholder, showAddRelationship, loading, deleting,
                 selectedCompanies, minInfluence, editingRelId, focusedNodeId, contextMenu,
                 upserts, loads, archiveOp, deleteRelOp>>
  /\ cy' = IF clustering' # clustering THEN Rerendered ELSE cy
  /\ addForm' = RenderedFormOf(addForm)

(***************************************************************************)
(* MapPage: archive and delete.                                            *)
(***************************************************************************)
\* deleteStakeholder(id) with window.confirm accepted, up to the await of the update
deleteStakeholder(id) ==
  /\ archiveOp.pc = "idle"
  /\ archiveOp' = [pc |-> "update", arg |-> id]
  /\ deleting' = TRUE
  /\ issued' = <<Request("update", "stakeholders", <<id>>)>>

\* the update succeeds and loadData is called, the selection is left as it is
ArchiveOkKeepsSelection ==
  /\ UNCHANGED drops
  /\ Continuation
  /\ archiveOp.pc = "update"
  /\ dbStatus' = [dbStatus EXCEPT ![archiveOp.arg] = "archived"]
  /\ archiveOp' = [archiveOp EXCEPT !.pc = "reload"]
  /\ loads' = loads \cup {PendingLoad("archive")}
  /\ issued' = LoadRequests
  /\ logged' = <<>> /\ called' = <<>> /\ pressed' = Null
  /\ UNCHANGED <<dbRelationships, dbLayouts, pageMounted, pageVars, canvasVars, upserts,
                 clusterOp, deleteRelOp, addForm>>

\* the update succeeds: the selection is cleared, loadData is called and awaited
ArchiveOk ==
  /\ UNCHANGED drops
  /\ Continuation
  /\ archiveOp.pc = "update"
  /\ dbStatus' = [dbStatus EXCEPT ![archiveOp.arg] = "archived"]
  /\ archiveOp' = [archiveOp EXCEPT !.pc = "reload"]
  /\ selectedStakeholder' = IF pageMounted THEN NoSelection ELSE selectedStakeholder
  /\ contextMenu' = IF contextMenu.obj = "selected"
                      THEN [contextMenu EXCEPT !.obj = "old"] ELSE contextMenu
  /\ loads' = loads \cup {PendingLoad("archive")}
  /\ issued' = LoadRequests
  /\ logged' = <<>> /\ called' = <<>> /\ pressed' = Null
  /\ UNCHANGED <<dbRelationships, dbLayouts, pageMounted, stakeholders, relationships,
                 layouts, showAddRelationship, loading, clustering, deleting,
                 selectedCompanies, minInfluence, editingRelId, focusedNodeId, upserts,
                 clusterOp, deleteRelOp>>
  /\ cy' = IF selectedStakeholder' # selectedStakeholder THEN Rerendered ELSE cy
  /\ addForm' = RenderedFormOf(addForm)

\* the update fails: catch logs and alerts, finally resets the flag
ArchiveFail ==
  /\ UNCHANGED drops
  /\ Continuation
  /\ archiveOp.pc = "update"
  /\ archiveOp' = Idle
  /\ deleting' = IF pageMounted THEN FALSE ELSE deleting
  /\ logged' = <<"Delete failed:">>
  /\ issued' = <<>> /\ called' = <<>> /\ pressed' = Null
  /\ UNCHANGED <<storeVars, pageMounted, stakeholders, relationships, layouts,
                 selectedStakeholder, showAddRelationship, loading, clustering,
                 selectedCompanies, minInfluence, editingRelId, focusedNodeId, contextMenu,
                 upserts, loads, clusterOp, deleteRelOp>>
  /\ cy' = IF deleting' # deleting THEN Rerendered ELSE cy
  /\ addForm' = RenderedFormOf(addForm)

\* click on "Archive" in the detail panel; confirmed is the answer of window.confirm
ArchiveSelected(confirmed) ==
  /\ UNCHANGED drops
  /\ UserEvent
  /\ pageMounted /\ ~loading
  /\ selectedStakeholder # NoSelection /\ ~showAddRelationship /\ ~deleting
  /\ IF confirmed
       THEN deleteStakeholder(selectedStakeholder.id)
       ELSE issued' = <<>> /\ UNCHANGED <<archiveOp, deleting>>
  /\ logged' = <<>> /\ called' = <<>> /\ pressed' = "archive"
  /\ UNCHANGED <<storeVars, pageMounted, stakeholders, relationships, layouts,
                 selectedStakeholder, showAddRelationship, loading, clustering,
                 selectedCompanies, minInfluence, editingRelId, focusedNodeId, contextMenu,
                 upserts, loads, clusterOp, deleteRelOp>>
  /\ cy' = IF confirmed THEN Rerendered ELSE cy
  /\ addForm' = RenderedFormOf(addForm)

\* deleteRelationship(id) with window.confirm accepted, up to the await of the delete
deleteRelationship(id) ==
  /\ deleteRelOp.pc = "idle"
  /\ deleteRelOp' = [pc |-> "delete", arg |-> id]
  /\ issued' = <<Request("delete", "relationships", <<id>>)>>

DeleteRelationshipOk ==
  /\ UNCHANGED drops
  /\ Continuation
  /\ deleteRelOp.pc = "delete"
  /\ dbRelationships' = dbRelationships \ {deleteRelOp.arg}
  /\ deleteRelOp' = [deleteRelOp EXCEPT !.pc = "reload"]
  /\ loads' = loads \cup {PendingLoad("delrel")}
  /\ issued' = LoadRequests
  /\ logged' = <<>> /\ called' = <<>> /\ pressed' = Null
  /\ UNCHANGED <<dbStatus, dbLayouts, pageMounted, pageVars, canvasVars, upserts,
                 clusterOp, archiveOp>>
  /\ addForm' = RenderedFormOf(addForm)

DeleteRelationshipFail ==
  /\ UNCHANGED drops
  /\ Continuation
  /\ deleteRelOp.pc = "delete"
  /\ deleteRelOp' = Idle
  /\ logged' = <<"Delete relationship failed:">>
  /\ issued' = <<>> /\ called' = <<>> /\ pressed' = Null
  /\ UNCHANGED <<storeVars, pageMounted, pageVars, canvasVars, upserts, loads, clusterOp,
                 archiveOp>>
  /\ addForm' = RenderedFormOf(addForm)

\* click on the delete button of a relationship of the selected stakeholder
DeleteSelectedRelationship(r) ==
  /\ UNCHANGED drops
  /\ UserEvent
  /\ pageMounted /\ ~loading
  /\ selectedStakeholder # NoSelection /\ ~showAddRelationship
  /\ r \in relationships
  /\ selectedStakeholder.id \in {from_stakeholder_id(r), to_stakeholder_id(r)}
  /\ deleteRelationship(r)
  /\ logged' = <<>> /\ called' = <<>> /\ pressed' = Null
  /\ UNCHANGED <<storeVars, pageMounted, pageVars, canvasVars, upserts, loads, clusterOp,
                 archiveOp>>
  /\ addForm' = RenderedFormOf(addForm)

(***************************************************************************)
(* MapPage: filters and the detail panel.                                  *)
(***************************************************************************)
\* CompanyFilter.toggle / selectAll / clearAll through onChange
SetSelectedCompanies(next) ==
  /\ UNCHANGED drops
  /\ UserEvent
  /\ pageMounted /\ ~loading
  /\ Cardinality(companyList(stakeholders)) > 1
  /\ selectedCompanies' = next
  /\ UNCHANGED <<storeVars, pageMounted, stakeholders, relationships, layouts,
                 selectedStakeholder, showAddRelationship, loading, clustering, deleting,
                 minInfluence, editingRelId, focusedNodeId, contextMenu, asyncVars>>
  /\ cy' = Rerendered
  /\ Quiet
  /\ addForm' = RenderedFormOf(addForm)

toggle(id) ==
  /\ id \in companyList(stakeholders)
  /\ SetSelectedCompanies(IF id \in selectedCompanies
                            THEN selectedCompanies \ {id}
                            ELSE selectedCompanies \cup {id})

selectAll == SetSelectedCompanies(companyList(stakeholders))

clearAll == SetSelectedCompanies({})

InfluenceChoices == {0, 3}

\* MapFilters: the minimum-influence slider
SetMinInfluence(v) ==
  /\ UNCHANGED drops
  /\ UserEvent
  /\ pageMounted /\ ~loading
  /\ v # minInfluence
  /\ minInfluence' = v
  /\ UNCHANGED <<storeVars, pageMounted, stakeholders, relationships, layouts,
                 selectedStakeholder, showAddRelationship, loading, clustering, deleting,
                 selectedCompanies, editingRelId, focusedNodeId, contextMenu, asyncVars>>
  /\ cy' = Rerendered
  /\ Quiet
  /\ addForm' = RenderedFormOf(addForm)

\* a click in the export menu: the handler's call of an export function, then
\* setShowExportMenu(false) and the re-render
ExportCsv(fn, rows) ==
  /\ UNCHANGED drops
  /\ UserEvent
  /\ pageMounted /\ ~loading
  /\ UNCHANGED <<storeVars, pageMounted, pageVars, focusedNodeId, contextMenu, asyncVars>>
  /\ cy' = Rerendered
  /\ issued' = <<>> /\ logged' = <<>> /\ pressed' = Null
  /\ called' = <<[action |-> fn, rows |-> rows]>>
  /\ addForm' = RenderedFormOf(addForm)

\* the menu item "CSV Stakeholders"
exportCsvStakeholders == ExportCsv("exportStakeholdersCsv", filteredStakeholders)

\* the menu item "CSV Relationships"
exportCsvRelationships ==
  LET visibleIds == Range(filteredStakeholders)
      visibleRels ==
        {r \in relationships :
           from_stakeholder_id(r) \in visibleIds /\ to_stakeholder_id(r) \in visibleIds}
  IN  ExportCsv("exportRelationshipsCsv", visibleRels)

\* the close button of the detail panel
CloseDetail ==
  /\ UNCHANGED drops
  /\ UserEvent
  /\ pageMounted /\ ~loading
  /\ selectedStakeholder # NoSelection /\ ~showAddRelationship
  /\ selectedStakeholder' = NoSelection
  /\ contextMenu' = IF contextMenu.obj = "selected"
                      THEN [contextMenu EXCEPT !.obj = "old"] ELSE contextMenu
  /\ UNCHANGED <<storeVars, pageMounted, stakeholders, relationships, layouts,
                 showAddRelationship, loading, clustering, deleting, selectedCompanies,
                 minInfluence, editingRelId, focusedNodeId, asyncVars>>
  /\ cy' = Rerendered
  /\ Quiet
  /\ addForm' = RenderedFormOf(addForm)

(***************************************************************************)
(* AddRelationshipForm: the panel buttons of MapPage and the form handlers.*)
(***************************************************************************)
\* the stakeholders offered by the selects of the form in this model
FormChoices == {"s1", "s3"}

\* the row of relationships created by an insert of (from, to)
InsertedRow(from, to) == IF from = "s1" THEN "r13" ELSE "r31"

ValidationMessage == "Select different From and To stakeholders."

\* a change of a field of the form or a submit: not counted among the user
\* events (the fields have finitely many values, submits are capped by MaxInserts)
FormInput == events' = events /\ writes' = writes /\ evaluated' = evaluated

\* the button "Add Relationship" of the detail panel
OpenAddRelationship ==
  /\ UNCHANGED drops
  /\ UserEvent
  /\ pageMounted /\ ~loading
  /\ selectedStakeholder # NoSelection /\ ~showAddRelationship
  /\ showAddRelationship' = TRUE
  /\ UNCHANGED <<storeVars, pageMounted, stakeholders, relationships, layouts,
                 selectedStakeholder, loading, clustering, deleting, selectedCompanies,
                 minInfluence, editingRelId, focusedNodeId, contextMenu, asyncVars>>
  /\ cy' = Rerendered
  /\ Quiet
  /\ addForm' = RenderedFormOf(addForm)

\* the close button of the add-relationship panel
CloseAddRelationship ==
  /\ UNCHANGED drops
  /\ UserEvent
  /\ pageMounted /\ ~loading
  /\ showAddRelationship
  /\ showAddRelationship' = FALSE
  /\ UNCHANGED <<storeVars, pageMounted, stakeholders, relationships, layouts,
                 selectedStakeholder, loading, clustering, deleting, selectedCompanies,
                 minInfluence, editingRelId, focusedNodeId, contextMenu, asyncVars>>
  /\ cy' = Rerendered
  /\ Quiet
  /\ addForm' = RenderedFormOf(addForm)

\* onChange of the select "From": enabled only without the prop fromStakeholderId
SetFromId(v) ==
  /\ addForm.mounted
  /\ FormProp(selectedStakeholder) = ""
  /\ v \in ({""} \cup FormChoices) \ {addForm.fromId}
  /\ addForm' = [addForm EXCEPT !.fromId = v]
  /\ UNCHANGED <<storeVars, pageMounted, pageVars, canvasVars, asyncVars, drops>>
  /\ Quiet /\ FormInput

\* onChange of the select "To": its options leave out the stakeholder chosen as From
SetToId(v) ==
  /\ addForm.mounted
  /\ v \in ({""} \cup FormChoices) \ {addForm.fromId, addForm.toId}
  /\ addForm' = [addForm EXCEPT !.toId = v]
  /\ UNCHANGED <<storeVars, pageMounted, pageVars, canvasVars, asyncVars, drops>>
  /\ Quiet /\ FormInput

\* handleSubmit without the validation
handleSubmitWithoutValidation ==
  /\ addForm.mounted
  /\ Cardinality(addForm.inserts) < MaxInserts
  /\ addForm' =
       [addForm EXCEPT !.error = Null,
                       !.inserts = @ \cup {[gen |-> addForm.gen, from |-> addForm.fromId,
                                            to |-> addForm.toId,
                                            prop |-> FormProp(selectedStakeholder)]}]
  /\ issued' = <<Request("insert", "relationships",
                         <<[from_stakeholder_id |-> addForm.fromId,
                            to_stakeholder_id |-> addForm.toId]>>)>>
  /\ logged' = <<>> /\ called' = <<>> /\ pressed' = "submit"
  /\ UNCHANGED <<storeVars, pageMounted, pageVars, canvasVars, asyncVars, drops>>
  /\ FormInput

\* handleSubmit, up to the return of the validation or the await of the insert
handleSubmit ==
  /\ addForm.mounted
  /\ IF addForm.fromId = "" \/ addForm.toId = "" \/ addForm.fromId = addForm.toId
       THEN /\ addForm' = [addForm EXCEPT !.error = ValidationMessage]
            /\ issued' = <<>>
       ELSE /\ Cardinality(addForm.inserts) < MaxInserts
            /\ {addForm.fromId, addForm.toId} \subseteq FormChoices
            /\ addForm' =
                 [addForm EXCEPT !.error = Null,
                                 !.inserts = @ \cup {[gen |-> addForm.gen,
                                                      from |-> addForm.fromId,
                                                      to |-> addForm.toId,
                                                      prop |-> FormProp(selectedStakeholder)]}]
            /\ issued' = <<Request("insert", "relationships",
                                   <<[from_stakeholder_id |-> addForm.fromId,
                                      to_stakeholder_id |-> addForm.toId]>>)>>
  /\ logged' = <<>> /\ called' = <<>> /\ pressed' = "submit"
  /\ UNCHANGED <<storeVars, pageMounted, pageVars, canvasVars, asyncVars, drops>>
  /\ FormInput

\* the insert succeeds: the form is reset and onAdded is called, which calls
\* loadData and hides the panel
InsertOk(i) ==
  /\ UNCHANGED drops
  /\ Continuation
  /\ i \in addForm.inserts
  /\ InsertedRow(i.from, i.to) \notin dbRelationships
  /\ dbRelationships' = dbRelationships \cup {InsertedRow(i.from, i.to)}
  /\ showAddRelationship' = (showAddRelationship /\ ~pageMounted)
  /\ loads' = loads \cup {PendingLoad("added")}
  /\ issued' = LoadRequests
  /\ called' = <<[action |-> "onAdded", stakeholder |-> Null, edgeId |-> Null]>>
  /\ logged' = <<>> /\ pressed' = Null
  /\ UNCHANGED <<dbStatus, dbLayouts, pageMounted, stakeholders, relationships, layouts,
                 selectedStakeholder, loading, clustering, deleting, selectedCompanies,
                 minInfluence, editingRelId, focusedNodeId, contextMenu, upserts,
                 clusterOp, archiveOp, deleteRelOp>>
  /\ cy' = IF showAddRelationship' # showAddRelationship THEN Rerendered ELSE cy
  /\ addForm' =
       LET current == addForm.mounted /\ addForm.gen = i.gen
       IN  RenderedFormOf([addForm EXCEPT !.inserts = @ \ {i},
                                          !.fromId = IF current THEN i.prop ELSE @,
                                          !.toId = IF current THEN "" ELSE @])

\* the insert fails: the form shows the message of the error
InsertFail(i) ==
  /\ UNCHANGED drops
  /\ Continuation
  /\ i \in addForm.inserts
  /\ addForm' =
       [addForm EXCEPT !.inserts = @ \ {i},
                       !.error = IF addForm.mounted /\ addForm.gen = i.gen
                                   THEN "Failed to add relationship" ELSE @]
  /\ UNCHANGED <<storeVars, pageMounted, pageVars, canvasVars, asyncVars>>
  /\ Quiet

(***************************************************************************)
(* Helper functions applied to given inputs: one call per behaviour.       *)
(***************************************************************************)
otherVars ==
  <<storeVars, pageMounted, pageVars, canvasVars, asyncVars, outputVars, events, writes,
    drops, addForm>>

Evaluate(fn, args, value) ==
  /\ evaluated.fn = Null
  /\ evaluated' = [fn |-> fn, args |-> args, value |-> value]
  /\ UNCHANGED otherVars

Reverse(seq) == [i \in 1..Len(seq) |-> seq[Len(seq) + 1 - i]]

(***************************************************************************)
(* convexHull. Coordinates and padding are integers in units of 0.1 px.    *)
(***************************************************************************)
\* the padding drawHulls passes, in px
HullPadding == 40

\* (a, b) => a.x - b.x || a.y - b.y is negative
PointBefore(a, b) == a.x < b.x \/ (a.x = b.x /\ a.y < b.y)

RECURSIVE InsertSorted(_, _)
InsertSorted(sorted, p) ==
  IF sorted = <<>> \/ ~PointBefore(p, sorted[Len(sorted)])
    THEN Append(sorted, p)
    ELSE Append(InsertSorted(SubSeq(sorted, 1, Len(sorted) - 1), p), sorted[Len(sorted)])

\* [...points].sort(...)
RECURSIVE SortPoints(_)
SortPoints(points) ==
  IF points = <<>>
    THEN <<>>
    ELSE InsertSorted(SortPoints(SubSeq(points, 1, Len(points) - 1)), points[Len(points)])

cross(o, a, b) == (a.x - o.x) * (b.y - o.y) - (a.y - o.y) * (b.x - o.x)

\* while (chain.length >= 2 && cross(...) <= 0) chain.pop()
RECURSIVE PopWhile(_, _)
PopWhile(chain, p) ==
  IF Len(chain) >= 2 /\ cross(chain[Len(chain) - 1], chain[Len(chain)], p) <= 0
    THEN PopWhile(SubSeq(chain, 1, Len(chain) - 1), p)
    ELSE chain

\* one pass of the scan over pts, continuing the chain built so far
RECURSIVE HullChain(_, _)
HullChain(pts, chain) ==
  IF pts = <<>>
    THEN chain
    ELSE HullChain(Tail(pts), Append(PopWhile(chain, Head(pts)), Head(pts)))

\* the largest r with r * r <= v, for lo * lo <= v < hi * hi
RECURSIVE SqrtBetween(_, _, _)
SqrtBetween(v, lo, hi) ==
  IF hi - lo <= 1
    THEN lo
    ELSE LET mid == (lo + hi) \div 2
         IN  IF mid * mid <= v THEN SqrtBetween(v, mid, hi) ELSE SqrtBetween(v, lo, mid)

\* Math.sqrt, rounded down
Sqrt(v) == SqrtBetween(v, 0, 46341)

\* num / den rounded to the nearest integer, den > 0
RoundDiv(num, den) == (2 * num + den) \div (2 * den)

RECURSIVE SumX(_)
SumX(pts) == IF pts = <<>> THEN 0 ELSE Head(pts).x + SumX(Tail(pts))

RECURSIVE SumY(_)
SumY(pts) == IF pts = <<>> THEN 0 ELSE Head(pts).y + SumY(Tail(pts))

\* the hull moved towards its centroid by padding
ExpandHullInward(hull, padding) ==
  LET n == Len(hull)
      sx == SumX(hull)
      sy == SumY(hull)
      moved(p) ==
        LET nx == n * p.x - sx
            ny == n * p.y - sy
            root == Sqrt(16 * (nx * nx + ny * ny))
            dist == IF root = 0 THEN 4 * n ELSE root
        IN  Pos(p.x - RoundDiv(4 * nx * padding, dist),
                p.y - RoundDiv(4 * ny * padding, dist))
  IN  [i \in 1..n |-> moved(hull[i])]

\* "Expand hull outward by padding": with n = hull.length, nx = n * dx and
\* ny = n * dy are integers, and Sqrt(16 * (nx^2 + ny^2)) is 4 * n * dist
ExpandHull(hull, padding) ==
  LET n == Len(hull)
      sx == SumX(hull)
      sy == SumY(hull)
      moved(p) ==
        LET nx == n * p.x - sx
            ny == n * p.y - sy
            root == Sqrt(16 * (nx * nx + ny * ny))
            dist == IF root = 0 THEN 4 * n ELSE root
        IN  Pos(p.x + RoundDiv(4 * nx * padding, dist),
                p.y + RoundDiv(4 * ny * padding, dist))
  IN  [i \in 1..n |-> moved(hull[i])]

\* convexHull with the guard points.length < 3
convexHullOfThreeOrMore(points, padding) ==
  IF Len(points) < 3
    THEN points
    ELSE LET sorted == SortPoints(points)
             lower == HullChain(sorted, <<>>)
             upper == HullChain(Reverse(sorted), <<>>)
             hull == SubSeq(lower, 1, Len(lower) - 1) \o SubSeq(upper, 1, Len(upper) - 1)
         IN  IF Len(hull) = 0 THEN points ELSE ExpandHull(hull, padding)

convexHull(points, padding) ==
  IF Len(points) < 2
    THEN points
    ELSE LET sorted == SortPoints(points)
             lower == HullChain(sorted, <<>>)
             upper == HullChain(Reverse(sorted), <<>>)
             hull == SubSeq(lower, 1, Len(lower) - 1) \o SubSeq(upper, 1, Len(upper) - 1)
         IN  IF Len(hull) = 0 THEN points ELSE ExpandHull(hull, padding)

\* the points given to convexHull: up to MaxPoints points of a 3 x 3 grid of
\* 40 px spacing, in any order and with repetitions
HullGrid == {Pos(x, y) : x \in {0, 400, 800}, y \in {0, 400, 800}}

HullInputs == UNION {[1..n -> HullGrid] : n \in 0..MaxPoints}

HullPaddings == {0, 10 * HullPadding}

EvalConvexHull(points, padding) ==
  Evaluate("convexHull", [points |-> points, padding |-> padding],
           convexHull(points, padding))

(***************************************************************************)
(* influenceSize.                                                          *)
(***************************************************************************)
\* an influence_score: null, or a number
NoScore == [null |-> TRUE, value |-> 0]

Score(k) == [null |-> FALSE, value |-> k]

Scores == {NoScore} \cup {Score(k) : k \in -1..7}

Max(a, b) == IF a >= b THEN a ELSE b

\* influenceSize with score ?? 3
influenceSizeDefaultsToThree(score) ==
  LET s == Max(1, Min(5, IF score.null THEN 3 ELSE score.value))
  IN  24 + (s - 1) * 7

influenceSize(score) ==
  LET s == Max(1, Min(5, IF score.null THEN 2 ELSE score.value))
  IN  24 + (s - 1) * 7

\* the sizes of two nodes
EvalInfluenceSize(a, b) ==
  Evaluate("influenceSize", <<a, b>>, <<influenceSize(a), influenceSize(b)>>)

(***************************************************************************)
(* buildCompanyColorMap. A stakeholder list is given by the company_id of  *)
(* each stakeholder: a positive number, or 0 for a missing (falsy) one.    *)
(***************************************************************************)
COMPANY_RING_COLORS ==
  <<"#2563eb", "#1d4ed8", "#3b82f6", "#60a5fa", "#93c5fd", "#bfdbfe",
    "#7c3aed", "#6d28d9", "#8b5cf6", "#a78bfa", "#c4b5fd", "#ddd6fe",
    "#db2777", "#be185d", "#ec4899", "#f472b6", "#f9a8d4", "#fbcfe8",
    "#dc2626", "#b91c1c", "#ef4444", "#f87171", "#fca5a5", "#fecaca",
    "#ea580c", "#c2410c", "#f97316", "#fb923c", "#fdba74", "#fed7aa",
    "#ca8a04", "#a16207", "#eab308", "#facc15", "#fde047", "#fef08a",
    "#059669", "#047857", "#10b981", "#34d399", "#6ee7b7", "#a7f3d0",
    "#0d9488", "#0f766e", "#14b8a6", "#2dd4bf", "#5eead4", "#99f6e4">>

\* the colour at index size % 6
CompanyRingColorOfSix(size) == COMPANY_RING_COLORS[(size % 6) + 1]

\* COMPANY_RING_COLORS[map.size % COMPANY_RING_COLORS.length]
CompanyRingColor(size) == COMPANY_RING_COLORS[(size % Len(COMPANY_RING_COLORS)) + 1]

\* the loop over the stakeholders: the keys of the map in insertion order,
\* continuing the keys inserted so far (the loop over a list is the loop over
\* its first half followed by the loop over its second half)
RECURSIVE ColorMapKeys(_, _)
ColorMapKeys(ids, keys) ==
  CASE Len(ids) = 0 -> keys
    [] Len(ids) = 1 ->
         IF ids[1] = 0 \/ ids[1] \in Range(keys) THEN keys ELSE Append(keys, ids[1])
    [] OTHER ->
         Eval(ColorMapKeys(SubSeq(ids, 1, Len(ids) \div 2), keys),
              LAMBDA seen : ColorMapKeys(SubSeq(ids, Len(ids) \div 2 + 1, Len(ids)), seen))

\* the key inserted when the map had size k was given the colour of index k
buildCompanyColorMap(ids) ==
  LET keys == ColorMapKeys(ids, <<>>)
  IN  [c \in Range(keys) |->
         CompanyRingColor((CHOOSE k \in 1..Len(keys) : keys[k] = c) - 1)]

\* lists over n companies: each company once, in reverse, each stakeholder
\* followed by one without company and a colleague, the list twice; and
\* every list of up to 3 stakeholders over two companies and no company
ColorInputs ==
  UNION {{[i \in 1..n |-> i], [i \in 1..n |-> n + 1 - i]} : n \in 1..MaxCompanies}
    \cup UNION {{[i \in 1..(3 * n) |-> IF i % 3 = 2 THEN 0 ELSE (i + 2) \div 3],
                 [i \in 1..(2 * n) |-> ((i - 1) % n) + 1]} :
                  n \in 1..(MaxCompanies \div 6)}
    \cup UNION {[1..n -> {0, 1, 2}] : n \in 0..3}

EvalBuildCompanyColorMap(ids) ==
  Evaluate("buildCompanyColorMap", ids, buildCompanyColorMap(ids))

\* stakeholder lists given to clusterByCompany: s5 and s6 are alone in their
\* companies, s7 is a third member of cA
ClusterInputOrder == <<"s1", "s2", "s3", "s4", "s5", "s6", "s7">>

ClusterInputs ==
  {SelectSeq(order, LAMBDA s : s \in chosen) :
     order \in {ClusterInputOrder, Reverse(ClusterInputOrder)},
     chosen \in SUBSET Range(ClusterInputOrder)} \ {<<>>}

\* the positions clusterByCompany computes for a non-empty stakeholder list
EvalClusterByCompany(sts) == Evaluate("clusterByCompany", sts, layoutsToUpsert(sts))

\* stakeholder lists given to GraphCanvas: s4, s6 and s7 are named like their
\* companies, the company of s5 has the empty name, s8 has no company
GraphInputOrder == <<"s1", "s4", "s5", "s6", "s7", "s8">>

GraphInputs ==
  {SelectSeq(order, LAMBDA s : s \in chosen) :
     order \in {GraphInputOrder, Reverse(GraphInputOrder)},
     chosen \in SUBSET Range(GraphInputOrder)}

\* the stakeholders GraphCanvas turns into nodes
EvalGraphStakeholders(sts) == Evaluate("graphStakeholders", sts, graphStakeholders(sts))

NextHelpers ==
  /\ evaluated.fn = Null
  /\ \/ \E sts \in ClusterInputs : EvalClusterByCompany(sts)
     \/ \E points \in HullInputs, padding \in HullPaddings : EvalConvexHull(points, padding)
     \/ \E a, b \in Scores : EvalInfluenceSize(a, b)
     \/ \E ids \in ColorInputs : EvalBuildCompanyColorMap(ids)
     \/ \E sts \in GraphInputs : EvalGraphStakeholders(sts)

SpecHelpers == Init /\ [][NextHelpers]_vars

(***************************************************************************)
(* Context menu.                                                           *)
(***************************************************************************)
\* cy.on('cxttap', 'node', ...)
CxtTapNode(n) ==
  /\ UNCHANGED drops
  /\ UserEvent
  /\ cy.live /\ n \in Range(cy.nodes)
  /\ contextMenu' = [kind |-> "node", id |-> n, obj |-> "cur"]
  /\ UNCHANGED <<storeVars, pageMounted, pageVars, focusedNodeId, cy, asyncVars>>
  /\ Quiet
  /\ addForm' = RenderedFormOf(addForm)

\* cy.on('cxttap', 'edge', ...)
CxtTapEdge(e) ==
  /\ UNCHANGED drops
  /\ UserEvent
  /\ cy.live /\ e \in cy.edges
  /\ contextMenu' = [kind |-> "edge", id |-> e, obj |-> Null]
  /\ UNCHANGED <<storeVars, pageMounted, pageVars, focusedNodeId, cy, asyncVars>>
  /\ Quiet
  /\ addForm' = RenderedFormOf(addForm)

\* the document mousedown listener installed while the menu is open: it runs for
\* a primary press anywhere in the document, the items of the menu included
DocumentMouseDown(target) ==
  /\ UNCHANGED drops
  /\ UserEvent
  /\ contextMenu # NoMenu
  /\ contextMenu' = NoMenu
  /\ pressed' = target
  /\ issued' = <<>> /\ logged' = <<>> /\ called' = <<>>
  /\ UNCHANGED <<storeVars, pageMounted, pageVars, focusedNodeId, cy, asyncVars>>
  /\ addForm' = RenderedFormOf(addForm)

\* a primary press outside the menu
OutsideMouseDown == DocumentMouseDown("outside")

MenuItems(kind) ==
  IF kind = "node"
    THEN {"edit", "add-relationship", "focus", "archive"}
    ELSE {"edit-edge", "delete-edge"}

\* the stakeholder object held by the menu, as a value of selectedStakeholder
MenuStakeholder(menu) ==
  [id |-> menu.id, obj |-> IF menu.obj = "cur" THEN "cur" ELSE "old"]

\* setSelectedStakeholder(menu object) leaves the state identical (Object.is)
SameObject(menu) ==
  \/ menu.obj = "selected"
  \/ menu.obj = "cur" /\ selectedStakeholder = [id |-> menu.id, obj |-> "cur"]

\* MapPage.handleContextAction(action, target); confirmed is the answer of window.confirm
handleContextAction(action, menu, confirmed) ==
  /\ pageMounted' = (action # "edit")
  /\ selectedStakeholder' =
       CASE action \in {"add-relationship", "focus"} -> MenuStakeholder(menu)
         [] action = "edit-edge" /\ menu.id \in relationships
              /\ from_stakeholder_id(menu.id) \in Range(stakeholders)
              -> [id |-> from_stakeholder_id(menu.id), obj |-> "cur"]
         [] OTHER -> selectedStakeholder
  /\ showAddRelationship' = (showAddRelationship \/ action = "add-relationship")
  /\ editingRelId' =
       IF action = "edit-edge" /\ menu.id \in relationships
            /\ from_stakeholder_id(menu.id) \in Range(stakeholders)
         THEN menu.id
         ELSE editingRelId
  /\ IF action = "archive" /\ confirmed
       THEN deleteStakeholder(menu.id) /\ UNCHANGED deleteRelOp
       ELSE IF action = "delete-edge" /\ confirmed
              THEN deleteRelationship(menu.id) /\ UNCHANGED <<archiveOp, deleting>>
              ELSE issued' = <<>> /\ UNCHANGED <<archiveOp, deleting, deleteRelOp>>

\* a primary click on an item of the open menu: the press reaches the document
\* listener, the menu is unmounted by the re-render that follows, and no click
\* is delivered to the item
MenuItemPointerClick(action) ==
  /\ contextMenu # NoMenu
  /\ action \in MenuItems(contextMenu.kind)
  /\ DocumentMouseDown(action)

\* GraphCanvas.handleContextAction(action): the click of an item of the open menu
\* is delivered (activation from the keyboard: no press precedes the click)
MenuAction(action, confirmed) ==
  /\ UNCHANGED drops
  /\ UserEvent
  /\ contextMenu # NoMenu
  /\ action \in MenuItems(contextMenu.kind)
  /\ confirmed \/ action \in {"archive", "delete-edge"}
  /\ called' = <<[action |-> action,
                  stakeholder |-> IF contextMenu.kind = "node" THEN contextMenu.id ELSE Null,
                  edgeId |-> IF contextMenu.kind = "edge" THEN contextMenu.id ELSE Null]>>
  /\ handleContextAction(action, contextMenu, confirmed)
  /\ contextMenu' = NoMenu
  /\ focusedNodeId' = IF pageMounted' THEN focusedNodeId ELSE Null
  /\ logged' = <<>> /\ pressed' = Null
  /\ UNCHANGED <<storeVars, stakeholders, relationships, layouts, loading, clustering,
                 selectedCompanies, minInfluence, upserts, loads, clusterOp>>
  /\ cy' = IF \/ ~pageMounted'
              \/ pageVars' # pageVars
              \/ action \in {"add-relationship", "focus"} /\ ~SameObject(contextMenu)
             THEN Rerendered
             ELSE cy
  /\ addForm' = RenderedFormOf(addForm)

\* the user leaves the map page: MapPage and GraphCanvas unmount
Unmount ==
  /\ UNCHANGED drops
  /\ UserEvent
  /\ pageMounted
  /\ pageMounted' = FALSE
  /\ focusedNodeId' = Null
  /\ contextMenu' = NoMenu
  /\ cy' = EffectCleanup(cy)
  /\ UNCHANGED <<storeVars, pageVars, asyncVars>>
  /\ Quiet
  /\ addForm' = RenderedFormOf(addForm)

LoadStep ==
  \/ \E l \in loads : LoadFetch(l)
  \/ \E l \in loads : LoadResolve(l)

\* the graph: materialization under reloads, filters, archives and deletions
NextGraph ==
  \/ LoadStep
  \/ \E l \in loads, t \in {"stakeholders", "relationships", "map_layouts"} : LoadFetchFail(l, t)
  \/ \E c \in CompanyIds : toggle(c)
  \/ selectAll
  \/ clearAll
  \/ \E v \in InfluenceChoices : SetMinInfluence(v)
  \/ \E n \in StakeholderIds : TapNode(n)
  \/ \E confirmed \in BOOLEAN : ArchiveSelected(confirmed)
  \/ ArchiveOk
  \/ ArchiveFail
  \/ \E r \in RelationshipIds : DeleteSelectedRelationship(r)
  \/ DeleteRelationshipOk
  \/ DeleteRelationshipFail
  \/ exportCsvStakeholders
  \/ exportCsvRelationships

SpecGraph == Init /\ [][NextGraph]_vars

\* layout persistence: drags and cluster relayouts
NextLayout ==
  \/ LoadStep
  \/ \E n \in {"s3"} : TapNode(n)
  \/ \E p \in DropPoints : DragFree("s1", p)
  \/ DragFree("s2", Pos(7000, 9000))
  \/ \E u \in upserts : DragUpsertOk(u)
  \/ \E u \in upserts : DragUpsertFail(u)
  \/ ClusterClick
  \/ ClusterUpsertOk
  \/ ClusterUpsertFail

SpecLayout == Init /\ [][NextLayout]_vars

\* drags among taps and context menus
NextDrag ==
  \/ LoadStep
  \/ \E n \in {"s3"} : TapNode(n)
  \/ \E n \in {"s3"} : CxtTapNode(n)
  \/ \E p \in DropPoints : DragFree("s1", p)
  \/ DragFree("s2", Pos(7000, 9000))
  \/ \E u \in upserts : DragUpsertOk(u)
  \/ \E u \in upserts : DragUpsertFail(u)

SpecDrag == Init /\ [][NextDrag]_vars

\* interaction: taps, focus and the context menu
NextInteraction ==
  \/ LoadStep
  \/ \E n \in StakeholderIds : TapNode(n)
  \/ TapBackground
  \/ \E n \in StakeholderIds : CxtTapNode(n)
  \/ \E e \in RelationshipIds : CxtTapEdge(e)
  \/ OutsideMouseDown
  \/ \E a \in MenuItems("node") \cup MenuItems("edge") : MenuItemPointerClick(a)
  \/ \E a \in MenuItems("node") \cup MenuItems("edge"), c \in BOOLEAN : MenuAction(a, c)
  \/ CloseDetail
  \/ ArchiveOk
  \/ ArchiveFail
  \/ DeleteRelationshipOk
  \/ DeleteRelationshipFail
  \/ Unmount

SpecInteraction == Init /\ [][NextInteraction]_vars

\* the add-relationship form: opened from the panel or the menu, filled in,
\* submitted, with the selection changing and being archived under it
NextForm ==
  \/ LoadStep
  \/ \E n \in FormChoices : TapNode(n)
  \/ CxtTapNode("s1")
  \/ \E action \in {"add-relationship", "archive"} : MenuAction(action, TRUE)
  \/ ArchiveOk
  \/ OpenAddRelationship
  \/ CloseAddRelationship
  \/ \E v \in {""} \cup FormChoices : SetFromId(v)
  \/ \E v \in {""} \cup FormChoices : SetToId(v)
  \/ handleSubmit
  \/ \E i \in addForm.inserts : InsertOk(i)
  \/ \E i \in addForm.inserts : InsertFail(i)

SpecForm == Init /\ [][NextForm]_vars

\* the company filter under archives and reloads, with three companies
NextFilter ==
  \/ LoadStep
  \/ \E c \in {"cA", "cB", "cE"} : toggle(c)
  \/ selectAll
  \/ clearAll
  \/ \E n \in {"s1", "s3", "s9"} : TapNode(n)
  \/ ArchiveSelected(TRUE)
  \/ ArchiveOk
  \/ ArchiveFail

SpecFilter == InitThreeCompanies /\ [][NextFilter]_vars

\* cluster relayouts among taps and loads that succeed or fail; the store
\* answers every batch upsert and every select it was sent
NextCluster ==
  \/ LoadStep
  \/ \E l \in loads, t \in {"stakeholders", "map_layouts"} : LoadFetchFail(l, t)
  \/ ClusterClick
  \/ ClusterClickDisabled
  \/ ClusterUpsertOk
  \/ ClusterUpsertFail
  \/ TapNode("s3")

SpecCluster ==
  /\ Init /\ [][NextCluster]_vars
  /\ WF_vars(ClusterUpsertOk \/ ClusterUpsertFail)
  /\ WF_vars(\E l \in loads : LoadFetch(l) \/ LoadResolve(l))

\* the store's layout entries under drags and cluster relayouts among loads,
\* taps, filters, context menus and archives
NextStore ==
  \/ LoadStep
  \/ TapNode("s3")
  \/ DragFree("s1", Pos(5000, 5000))
  \/ \E u \in upserts : DragUpsertOk(u)
  \/ \E u \in upserts : DragUpsertFail(u)
  \/ ClusterClick
  \/ ClusterUpsertOk
  \/ ClusterUpsertFail
  \/ toggle("cA")
  \/ SetMinInfluence(3)
  \/ CxtTapNode("s3")
  \/ OutsideMouseDown
  \/ ArchiveSelected(TRUE)
  \/ ArchiveOk

SpecStore == Init /\ [][NextStore]_vars

(***************************************************************************)
(* Properties of the materialized graph (SpecGraph).                       *)
(***************************************************************************)
\* C1: every edge of the live graph has its source and its target among the
\* nodes of the graph, and a relationship of the page with an endpoint that is
\* not in the filtered active list (filtered out, or archived and no longer
\* loaded) or that is suppressed by the name-equals-company rule yields no edge.
C1_EdgesHaveRenderedEndpoints ==
  /\ \A r \in cy.edges :
       {from_stakeholder_id(r), to_stakeholder_id(r)} \subseteq Range(cy.nodes)
  /\ \A r \in relationships :
       (\E e \in {from_stakeholder_id(r), to_stakeholder_id(r)} :
          \/ e \notin Range(filteredStakeholders)
          \/ trim(toLowerCase(full_name(e))) =
               trim(toLowerCase(CompanyName(company_id(e)))))
       => r \notin cy.edges

\* s3 has been archived and is no longer loaded, s4 is the placeholder of its
\* company: r2 and r3 are relationships of the page without an edge, r1 has one
C1_Witness ==
  /\ cy.live
  /\ dbStatus["s3"] = "archived"
  /\ Range(stakeholders) = {"s1", "s2", "s4"}
  /\ {"r1", "r2", "r3"} \subseteq relationships
  /\ cy.edges = {"r1"}

\* C2: every rendered stakeholder has a position: the (x, y) of its layout entry
\* if the loaded layouts hold one, otherwise the point at angle 2*pi*i/n on the
\* circle of radius 300 about the origin, i its index in and n the length of the
\* name-filtered list; the fallback positions are pairwise distinct.
C2_EveryNodeHasItsPosition ==
  cy.live =>
    LET rendered == SelectSeq(filteredStakeholders,
                              LAMBDA s : trim(toLowerCase(full_name(s))) #
                                           trim(toLowerCase(CompanyName(company_id(s)))))
        n == Len(rendered)
        entries(s) == {l \in layouts : l.stakeholder_id = s}
    IN  /\ cy.nodes = rendered
        /\ DOMAIN cy.position = Range(rendered)
        /\ \A i \in 1..n :
             IF entries(rendered[i]) # {}
               THEN \E l \in entries(rendered[i]) :
                      cy.position[rendered[i]] = Pos(l.x, l.y)
               ELSE cy.position[rendered[i]] =
                      Pos(300 * Cos1000(i - 1, n), 300 * Sin1000(i - 1, n))
        /\ \A i, j \in 1..n :
             (i # j /\ entries(rendered[i]) = {} /\ entries(rendered[j]) = {})
             => cy.position[rendered[i]] # cy.position[rendered[j]]

\* s3 sits at its layout entry, s1 and s2 at distinct points of the circle
C2_Witness ==
  /\ cy.live
  /\ cy.nodes = <<"s1", "s2", "s3">>
  /\ cy.position["s3"] = Pos(10000, 20000)
  /\ cy.position["s1"] = Pos(300000, 0)
  /\ cy.position["s2"] = Pos(-150000, 259800)

(***************************************************************************)
(* Properties of layout persistence (SpecLayout).                          *)
(***************************************************************************)
\* C3: the store never holds two layout entries for one (map, stakeholder); when
\* an upsert for a pair succeeds, drag or cluster batch, the single entry of that
\* pair holds the coordinates of that upsert, whatever the pair held before.
C3_OneEntryPerMapAndStakeholder ==
  /\ [](\A a, b \in dbLayouts :
          (a.map_id = b.map_id /\ a.stakeholder_id = b.stakeholder_id) => a = b)
  /\ [][LET entriesOf(row) ==
              {l \in dbLayouts' : /\ l.map_id = row.map_id
                                  /\ l.stakeholder_id = row.stakeholder_id}
        IN  /\ \A u \in upserts :
                 (drops[u.seq].result = "pending" /\ drops'[u.seq].result = "saved")
                 => entriesOf(u.row) = {u.row}
            /\ (clusterOp.pc = "upsert" /\ clusterOp'.pc = "reload")
               => \A i \in 1..Len(clusterOp.rows) :
                    entriesOf(clusterOp.rows[i]) = {clusterOp.rows[i]}]_vars

\* s1 was stored at one drop point (a reload has fetched that entry) and has
\* since been upserted at the other: one entry, with the second coordinates
C3_Witness ==
  /\ Len(drops) = 2
  /\ drops[1].row.stakeholder_id = "s1" /\ drops[2].row.stakeholder_id = "s1"
  /\ drops[1].row # drops[2].row
  /\ drops[1].result = "saved" /\ drops[2].result = "saved"
  /\ \E l \in loads : l.fetched /\ drops[1].row \in l.layouts
  /\ {e \in dbLayouts : e.stakeholder_id = "s1"} = {drops[2].row}

\* C10: when the batch upsert of a cluster relayout fails, that step changes no
\* layout entry of the store and none of the page's stakeholders, relationships
\* and layouts (the click changed none either), starts no reload, sends no
\* request and returns the clustering flag to false; when the upsert succeeds
\* the flag stays true and a reload is started, and the flag returns to false
\* only in the step that puts that reload's whole dataset into the page.
C10_ClusterFailureAndSuccess ==
  [][/\ (clusterOp.pc = "idle" /\ clusterOp'.pc = "upsert")
        => /\ <<stakeholders, relationships, layouts>>' =
                <<stakeholders, relationships, layouts>>
           /\ dbLayouts' = dbLayouts
     /\ (clusterOp.pc = "upsert" /\ clusterOp'.pc = "idle")
        => /\ dbLayouts' = dbLayouts
           /\ <<stakeholders, relationships, layouts>>' =
                <<stakeholders, relationships, layouts>>
           /\ loads' = loads
           /\ issued' = <<>>
           /\ upserts' = upserts
           /\ logged' # <<>>
           /\ clustering /\ ~clustering'
     /\ (clusterOp.pc = "upsert" /\ clusterOp'.pc = "reload")
        => /\ clustering /\ clustering'
           /\ issued' = LoadRequests
           /\ \E l \in loads' \ loads : l.owner = "cluster"
     /\ (clusterOp.pc = "reload" /\ clustering /\ ~clustering')
        => \E l \in loads \ loads' :
             /\ l.owner = "cluster" /\ l.fetched
             /\ stakeholders' = l.stakeholders
             /\ relationships' = l.relationships
             /\ layouts' = l.layouts
     /\ (clusterOp.pc = "reload" /\ clusterOp'.pc # "reload")
        => clustering /\ ~clustering']_vars

\* a first relayout succeeded and was reloaded into the page (four entries), a
\* second one has just failed: flag false, page and store as they were
C10_Witness ==
  /\ logged = <<"Cluster failed:">>
  /\ clusterOp = NoCluster
  /\ ~clustering
  /\ Cardinality(layouts) = 4
  /\ layouts = dbLayouts
  /\ loads = {}

(***************************************************************************)
(* Properties of drag-end persistence (SpecDrag).                          *)
(***************************************************************************)
\* C4: a drag-end on a node sends exactly one request, an upsert to map_layouts
\* of the one row (DEFAULT_MAP_ID, the node's id, the node's position at release),
\* puts one more persist in flight and leaves the selected stakeholder, the
\* focused node and the context menu as they were; no other step sends an upsert
\* or puts a persist in flight (nothing is retried).
C4_DragEndIssuesOneUpsert ==
  [][IF Len(drops') = Len(drops) + 1
       THEN \E n \in Range(cy.nodes) :
              LET released == [map_id |-> DEFAULT_MAP_ID, stakeholder_id |-> n,
                               x |-> cy'.position[n].x, y |-> cy'.position[n].y]
              IN  /\ drops'[Len(drops')].row = released
                  /\ issued' = <<[op |-> "upsert", table |-> "map_layouts",
                                  rows |-> <<released>>]>>
                  /\ \E u \in upserts' \ upserts :
                       u.row = released /\ upserts' = upserts \cup {u}
                  /\ selectedStakeholder' = selectedStakeholder
                  /\ focusedNodeId' = focusedNodeId
                  /\ contextMenu' = contextMenu
       ELSE /\ upserts' \subseteq upserts
            /\ \A i \in 1..Len(issued') : issued'[i].op # "upsert"]_vars

\* s1 has just been released at a drop point while s3 is selected and focused
\* and its context menu is open
C4_Witness ==
  /\ issued = <<[op |-> "upsert", table |-> "map_layouts",
                 rows |-> <<[map_id |-> DEFAULT_MAP_ID, stakeholder_id |-> "s1",
                             x |-> 5000, y |-> 5000]>>]>>
  /\ cy.position["s1"] = Pos(5000, 5000)
  /\ selectedStakeholder.id = "s3"
  /\ focusedNodeId = "s3"
  /\ contextMenu.id = "s3"

\* C5 (as claimed): the step in which the upsert of a drag-end fails logs the
\* error, starts no reload and sends no request, and from then on the node is
\* shown at its dropped position until a reload completes or it is dragged again.
C5_FailedDropStaysWhereDropped ==
  /\ [][\A u \in upserts :
          (drops[u.seq].result = "pending" /\ drops'[u.seq].result = "failed")
          => /\ logged' = <<"Failed to save layout:">>
             /\ loads' = loads
             /\ issued' = <<>>
             /\ upserts' = upserts \ {u}]_vars
  /\ [](\A i \in DOMAIN drops :
          (/\ drops[i].result = "failed"
           /\ ~drops[i].reloaded
           /\ \A j \in DOMAIN drops :
                j > i => drops[j].row.stakeholder_id # drops[i].row.stakeholder_id
           /\ cy.live
           /\ drops[i].row.stakeholder_id \in Range(cy.nodes))
          => cy.position[drops[i].row.stakeholder_id] =
               Pos(drops[i].row.x, drops[i].row.y))

\* C6: when the persists of single drags of two different stakeholders were in
\* flight together and both have succeeded, in whichever order, the store holds
\* each stakeholder's entry at its own drop coordinates, and the entries of all
\* other stakeholders are the ones the store started with.
C6_ConcurrentPersistsAreIndependent ==
  \A i, j \in DOMAIN drops :
    LET a == drops[i].row
        b == drops[j].row
        single(id) == Cardinality({k \in DOMAIN drops : drops[k].row.stakeholder_id = id}) = 1
    IN  (/\ a.stakeholder_id # b.stakeholder_id
         /\ drops[i].overlapped /\ drops[j].overlapped
         /\ drops[i].result = "saved" /\ drops[j].result = "saved"
         /\ single(a.stakeholder_id) /\ single(b.stakeholder_id))
        => /\ {l \in dbLayouts : l.stakeholder_id = a.stakeholder_id} = {a}
           /\ {l \in dbLayouts : l.stakeholder_id = b.stakeholder_id} = {b}
           /\ {l \in dbLayouts : l.stakeholder_id \notin {a.stakeholder_id, b.stakeholder_id}}
                = {l \in InitialLayouts :
                     l.stakeholder_id \notin {a.stakeholder_id, b.stakeholder_id}}

\* s1 was released first and s2 second while s1's persist was in flight; s2's
\* persist completed first (a reload has fetched s2's entry without s1's); both
\* entries and the initial entry of s3 are in the store
C6_Witness ==
  /\ Len(drops) = 2
  /\ drops[1].row.stakeholder_id = "s1" /\ drops[2].row.stakeholder_id = "s2"
  /\ drops[1].overlapped /\ drops[2].overlapped
  /\ drops[1].result = "saved" /\ drops[2].result = "saved"
  /\ \E l \in loads : l.fetched /\ drops[2].row \in l.layouts /\ drops[1].row \notin l.layouts
  /\ dbLayouts = InitialLayouts \cup {drops[1].row, drops[2].row}

(***************************************************************************)
(* Properties of taps, focus and the context menu (SpecInteraction).       *)
(***************************************************************************)
\* C7 (as claimed): a tap on a node that is not the focused node makes it the
\* focused node and dims every element except the node, its adjacent edges and
\* its 1-hop neighbours; a tap on the focused node clears the focused node and
\* leaves no element dimmed.
C7_TapTogglesFocus ==
  [][\A n \in StakeholderIds :
       pressed' = n
       => IF focusedNodeId # n
            THEN /\ focusedNodeId' = n
                 /\ cy'.dimmed = CyElements(cy') \ ClosedNeighborhood(cy', n)
            ELSE /\ focusedNodeId' = Null
                 /\ cy'.dimmed = {}]_vars

\* C8 (as claimed): a tap on the empty canvas clears the focused node, leaves no
\* element dimmed and leaves no stakeholder selected in the page.
C8_BackgroundTapLeadsToIdle ==
  [][pressed' = "canvas"
     => /\ focusedNodeId' = Null
        /\ cy'.dimmed = {}
        /\ selectedStakeholder' = NoSelection]_vars

\* C8 (amended): a tap on the empty canvas clears the focused node and leaves no
\* element dimmed; the stakeholder selected in the page stays as it was.
C8_BackgroundTapClearsFocusOnly ==
  [][pressed' = "canvas"
     => /\ focusedNodeId' = Null
        /\ cy'.dimmed = {}
        /\ selectedStakeholder' = selectedStakeholder]_vars

\* the canvas has just been tapped in a graph built while s1 was focused: s1 is
\* still selected, nothing is focused or dimmed
C8_Witness ==
  /\ pressed = "canvas"
  /\ cy.live
  /\ cy.focusedNodeId = "s1"
  /\ selectedStakeholder = [id |-> "s1", obj |-> "cur"]
  /\ focusedNodeId = Null
  /\ cy.dimmed = {}

\* C9 (as claimed): a right-click on a node or an edge opens the menu recording
\* exactly that target; choosing an item of the open menu, by a primary click on
\* it or by a click delivered from the keyboard, calls onContextAction exactly
\* once with that action and the recorded target and closes the menu; a primary
\* press outside the menu closes it and calls nothing.
C9_MenuDispatchesChosenAction ==
  [][LET recorded(a) ==
           [action |-> a,
            stakeholder |-> IF contextMenu.kind = "node" THEN contextMenu.id ELSE Null,
            edgeId |-> IF contextMenu.kind = "edge" THEN contextMenu.id ELSE Null]
     IN  /\ \A n \in StakeholderIds :
              CxtTapNode(n) => (contextMenu'.kind = "node" /\ contextMenu'.id = n)
         /\ \A e \in RelationshipIds :
              CxtTapEdge(e) => (contextMenu'.kind = "edge" /\ contextMenu'.id = e)
         /\ \A a \in MenuItems(contextMenu.kind) :
              (contextMenu # NoMenu /\ pressed' = a)
              => (called' = <<recorded(a)>> /\ contextMenu' = NoMenu)
         /\ called' # <<>>
              => /\ contextMenu # NoMenu
                 /\ \E a \in MenuItems(contextMenu.kind) : called' = <<recorded(a)>>
                 /\ contextMenu' = NoMenu
         /\ pressed' = "outside"
              => (contextMenu' = NoMenu /\ called' = <<>>)]_vars

(***************************************************************************)
(* C11: clusterByCompany computes exactly one position for every           *)
(* stakeholder of the list; company k of N (first-seen order) is centred   *)
(* at angle 2*pi*k/N on the ring of radius 350; every member lies at       *)
(* distance min(48, 25*memberCount) from its company's centre (to within   *)
(* 0.05 px of table rounding); for N >= 2 the centres are distinct.        *)
(***************************************************************************)
C11_ClusterGeometry ==
  evaluated.fn = "clusterByCompany" =>
    LET sts == evaluated.args
        rows == evaluated.value
        companies == {company_id(sts[i]) : i \in 1..Len(sts)}
        first(c) == CHOOSE i \in 1..Len(sts) :
                      /\ company_id(sts[i]) = c
                      /\ \A j \in 1..(i - 1) : company_id(sts[j]) # c
        index(c) == Cardinality({company_id(sts[j]) : j \in 1..(first(c) - 1)})
        centre(c) == Pos(350 * Cos1000(index(c), Cardinality(companies)),
                         350 * Sin1000(index(c), Cardinality(companies)))
        memberCount(c) == Cardinality({i \in 1..Len(sts) : company_id(sts[i]) = c})
        \* squared distance in units of 0.01 px
        dist2(p, q) ==
          ((p.x - q.x) \div 10) * ((p.x - q.x) \div 10)
            + ((p.y - q.y) \div 10) * ((p.y - q.y) \div 10)
    IN  /\ Len(rows) = Len(sts)
        /\ \A i \in 1..Len(sts) :
             Cardinality({k \in 1..Len(rows) : rows[k].stakeholder_id = sts[i]}) = 1
        /\ \A k \in 1..Len(rows) :
             LET c == company_id(rows[k].stakeholder_id)
                 m == memberCount(c)
                 r == IF 25 * m < 48 THEN 25 * m ELSE 48
                 d2 == dist2(Pos(rows[k].x, rows[k].y), centre(c))
             IN  /\ rows[k].map_id = DEFAULT_MAP_ID
                 /\ r <= 48
                 /\ (100 * r - 5) * (100 * r - 5) <= d2
                 /\ d2 <= (100 * r + 5) * (100 * r + 5)
        /\ \A c1, c2 \in companies : c1 # c2 => centre(c1) # centre(c2)

\* four companies, one of them with three members and one with a single member
C11_Witness ==
  LET sts == evaluated.args
      companies == {company_id(sts[i]) : i \in 1..Len(sts)}
      memberCount(c) == Cardinality({i \in 1..Len(sts) : company_id(sts[i]) = c})
  IN  /\ evaluated.fn = "clusterByCompany"
      /\ Cardinality(companies) = 4
      /\ \E c \in companies : memberCount(c) = 3
      /\ \E c \in companies : memberCount(c) = 1
      /\ Len(evaluated.value) = 7

(***************************************************************************)
(* C12: when one of the three reads of loadData fails, the page shows an   *)
(* error state and renders no graph from the data of the other reads:      *)
(* once the failed loadData call has set the page state, no graph is       *)
(* rendered.                                                               *)
(***************************************************************************)
C12_FailedReadRendersNoGraph ==
  [][\A l \in loads :
       (l.fetched /\ l.error # Null /\ l \notin loads' /\ pageMounted /\ pageMounted')
         => cy' = NoCy]_vars

(***************************************************************************)
(* C13: a submit of the add-relationship form with an empty From, an empty *)
(* To, or From equal to To is rejected before any network call: no request *)
(* is sent, onAdded is not called, From and To keep their values, the      *)
(* inline error message is set and nothing else changes.                   *)
(***************************************************************************)
C13_InvalidSubmitRejectedLocally ==
  [][(/\ pressed' = "submit"
      /\ \/ addForm.fromId = ""
         \/ addForm.toId = ""
         \/ addForm.fromId = addForm.toId)
       => /\ issued' = <<>>
          /\ called' = <<>>
          /\ addForm'.fromId = addForm.fromId
          /\ addForm'.toId = addForm.toId
          /\ addForm'.inserts = addForm.inserts
          /\ addForm'.error = "Select different From and To stakeholders."
          /\ addForm'.mounted
          /\ UNCHANGED <<storeVars, pageMounted, pageVars, canvasVars, asyncVars>>]_vars

\* a submit with From equal to To has been rejected
C13_Witness ==
  /\ pressed = "submit"
  /\ addForm.mounted
  /\ addForm.error = ValidationMessage
  /\ addForm.fromId = "s3" /\ addForm.toId = "s3"
  /\ issued = <<>> /\ called = <<>>

C15_FewPointsReturnedUnchanged ==
  (evaluated.fn = "convexHull" /\ Len(evaluated.args.points) <= 2)
    => evaluated.value = evaluated.args.points

(***************************************************************************)
(* C15, amended: convexHull called with 0 or 1 points returns its input    *)
(* unchanged; called with 2 points it returns 2 points (fewer than the 3   *)
(* drawHulls needs to draw): the two inputs in sort order, each moved by   *)
(* the padding along their line away from the other, and unchanged when    *)
(* the two are equal. Distances are met to within 0.1 px.                  *)
(***************************************************************************)
C15_TwoPointsArePushedApart ==
  evaluated.fn = "convexHull" =>
    LET points == evaluated.args.points
        padding == evaluated.args.padding
        v == evaluated.value
        first == IF points[2].x < points[1].x
                      \/ (points[2].x = points[1].x /\ points[2].y < points[1].y)
                   THEN points[2] ELSE points[1]
        second == IF first = points[1] THEN points[2] ELSE points[1]
        abs(k) == IF k < 0 THEN -k ELSE k
        dist2(p, q) == (p.x - q.x) * (p.x - q.x) + (p.y - q.y) * (p.y - q.y)
        pushed(w, own, other) ==
          /\ padding = 0 \/ (padding - 1) * (padding - 1) <= dist2(w, own)
          /\ dist2(w, own) <= (padding + 1) * (padding + 1)
          /\ 2 * abs((other.x - own.x) * (w.y - own.y) - (other.y - own.y) * (w.x - own.x))
               <= abs(other.x - own.x) + abs(other.y - own.y)
          /\ (w.x - own.x) * (other.x - own.x) + (w.y - own.y) * (other.y - own.y) <= 0
    IN  /\ Len(points) <= 1 => v = points
        /\ Len(points) = 2 =>
             /\ Len(v) = 2
             /\ points[1] = points[2] => v = points
             /\ points[1] # points[2] =>
                  pushed(v[1], first, second) /\ pushed(v[2], second, first)

\* two distinct points not in sort order, padding 40 px: both points come back moved
C15_Witness ==
  /\ evaluated.fn = "convexHull"
  /\ evaluated.args.points = <<Pos(800, 400), Pos(0, 0)>>
  /\ evaluated.args.padding = 400
  /\ Len(evaluated.value) = 2
  /\ evaluated.value[1].x < 0 /\ evaluated.value[2].x > 800

(***************************************************************************)
(* C16: for at least 3 input points that are not all collinear (duplicates *)
(* and collinear runs allowed), convexHull returns at least 3 vertices     *)
(* that form a simple polygon, and every input point is inside it or on    *)
(* its boundary.                                                           *)
(***************************************************************************)
C16_HullIsSimplePolygonContainingInputs ==
  evaluated.fn = "convexHull" =>
    LET points == evaluated.args.points
        v == evaluated.value
        n == Len(v)
        turn(a, b, c) == (b.x - a.x) * (c.y - a.y) - (b.y - a.y) * (c.x - a.x)
        sign(k) == IF k < 0 THEN -1 ELSE IF k > 0 THEN 1 ELSE 0
        between(a, b, q) ==
          /\ (a.x <= q.x /\ q.x <= b.x) \/ (b.x <= q.x /\ q.x <= a.x)
          /\ (a.y <= q.y /\ q.y <= b.y) \/ (b.y <= q.y /\ q.y <= a.y)
        onSegment(a, b, q) == turn(a, b, q) = 0 /\ between(a, b, q)
        meet(a, b, c, d) ==
          \/ /\ sign(turn(a, b, c)) * sign(turn(a, b, d)) < 0
             /\ sign(turn(c, d, a)) * sign(turn(c, d, b)) < 0
          \/ onSegment(a, b, c) \/ onSegment(a, b, d)
          \/ onSegment(c, d, a) \/ onSegment(c, d, b)
        next(i) == (i % n) + 1
        adjacent(i, j) == next(i) = j \/ next(j) = i
        simple ==
          /\ \A i, j \in 1..n : i # j => v[i] # v[j]
          /\ \A i, j \in 1..n :
               i < j =>
                 IF adjacent(i, j)
                   THEN LET shared == IF next(i) = j THEN v[j] ELSE v[i]
                            endI == IF next(i) = j THEN v[i] ELSE v[next(i)]
                            endJ == IF next(i) = j THEN v[next(j)] ELSE v[j]
                        IN  /\ ~onSegment(shared, endI, endJ)
                            /\ ~onSegment(shared, endJ, endI)
                   ELSE ~meet(v[i], v[next(i)], v[j], v[next(j)])
        crossesRay(i, q) ==
          LET a == v[i]
              b == v[next(i)]
          IN  /\ (a.y > q.y) # (b.y > q.y)
              /\ IF b.y > a.y THEN turn(a, b, q) > 0 ELSE turn(a, b, q) < 0
        contains(q) ==
          \/ \E i \in 1..n : onSegment(v[i], v[next(i)], q)
          \/ Cardinality({i \in 1..n : crossesRay(i, q)}) % 2 = 1
    IN  (/\ Len(points) >= 3
         /\ \E i, j, k \in 1..Len(points) : turn(points[i], points[j], points[k]) # 0)
          => /\ n >= 3
             /\ simple
             /\ \A i \in 1..Len(points) : contains(points[i])

\* a collinear run of three points and an apex, padding 40 px: a triangle comes back
C16_Witness ==
  /\ evaluated.fn = "convexHull"
  /\ evaluated.args.points = <<Pos(400, 0), Pos(800, 0), Pos(0, 0), Pos(400, 800)>>
  /\ evaluated.args.padding = 400
  /\ Len(evaluated.value) = 3

(***************************************************************************)
(* C17: influenceSize maps score 1 to the minimum size 24 and score 5 to   *)
(* the maximum size 52, is 24 + 7 * (score - 1) on 1..5, is monotonic      *)
(* non-decreasing over integer scores, clamps scores outside 1..5 into     *)
(* that range, and maps a missing score to the midpoint of the size range, *)
(* which is the size of score 2.                                           *)
(***************************************************************************)
C17_MissingScoreIsMidpoint ==
  evaluated.fn = "influenceSize" =>
    LET a == evaluated.args[1]
        b == evaluated.args[2]
        sizeA == evaluated.value[1]
        sizeB == evaluated.value[2]
    IN  /\ (~a.null /\ a.value = 1) => sizeA = 24
        /\ (~a.null /\ a.value = 5) => sizeA = 52
        /\ (~a.null /\ a.value \in 1..5) => sizeA = 24 + 7 * (a.value - 1)
        /\ (~a.null /\ a.value < 1) => sizeA = 24
        /\ (~a.null /\ a.value > 5) => sizeA = 52
        /\ (~a.null /\ ~b.null /\ a.value <= b.value) => sizeA <= sizeB
        /\ a.null => 2 * sizeA = 24 + 52
        /\ (a.null /\ ~b.null /\ b.value = 2) => sizeA = sizeB

(***************************************************************************)
(* C17, amended: as above, except that a missing score is given the size   *)
(* of score 2, which is 31 and not the midpoint 38 of the size range.      *)
(***************************************************************************)
C17_MissingScoreIsScoreTwo ==
  evaluated.fn = "influenceSize" =>
    LET a == evaluated.args[1]
        b == evaluated.args[2]
        sizeA == evaluated.value[1]
        sizeB == evaluated.value[2]
    IN  /\ (~a.null /\ a.value = 1) => sizeA = 24
        /\ (~a.null /\ a.value = 5) => sizeA = 52
        /\ (~a.null /\ a.value \in 1..5) => sizeA = 24 + 7 * (a.value - 1)
        /\ (~a.null /\ a.value < 1) => sizeA = 24
        /\ (~a.null /\ a.value > 5) => sizeA = 52
        /\ (~a.null /\ ~b.null /\ a.value <= b.value) => sizeA <= sizeB
        /\ a.null => sizeA = 31
        /\ (a.null /\ ~b.null /\ b.value = 2) => sizeA = sizeB

\* a node without a score next to a node of score 2: both get 31
C17_Witness ==
  /\ evaluated.fn = "influenceSize"
  /\ evaluated.args = <<NoScore, Score(2)>>
  /\ evaluated.value = <<31, 31>>

C19_NodesAreStakeholdersNotNamedLikeCompany ==
  evaluated.fn = "graphStakeholders" =>
    LET passed == evaluated.args
        rendered == evaluated.value
        hasCompanyName(s) ==
          company_id(s) # Null /\ Len(CompanyName(company_id(s))) > 0
        sameName(s) ==
          trim(toLowerCase(full_name(s))) = trim(toLowerCase(CompanyName(company_id(s))))
    IN  /\ Range(rendered) =
             {s \in Range(passed) : ~(hasCompanyName(s) /\ sameName(s))}
        /\ \A s \in Range(passed) : ~hasCompanyName(s) => s \in Range(rendered)
        /\ rendered = SelectSeq(passed, LAMBDA s : s \in Range(rendered))

\* of six stakeholders, the three named like their company (up to case and
\* surrounding blanks) are dropped; the blank-named ones without company name stay
C19_Witness ==
  /\ evaluated.fn = "graphStakeholders"
  /\ evaluated.args = GraphInputOrder
  /\ evaluated.value = <<"s1", "s5", "s8">>

(***************************************************************************)
(* C20: the stakeholder CSV export contains exactly the stakeholders that  *)
(* are nodes of the map under the current filters, and the relationship    *)
(* CSV export contains exactly the relationships drawn as edges.           *)
(***************************************************************************)
C20_ExportIsWhatTheMapShows ==
  /\ (called # <<>> /\ called[1].action = "exportStakeholdersCsv")
       => Range(called[1].rows) = Range(cy.nodes)
  /\ (called # <<>> /\ called[1].action = "exportRelationshipsCsv")
       => called[1].rows = cy.edges

(***************************************************************************)
(* C21: a drag-persist upsert and a clusterByCompany operation (its batch  *)
(* upsert or the reload it awaits) are never pending at the same time: no  *)
(* cluster relayout starts while a drag-persist is pending and no          *)
(* drag-persist starts while a cluster relayout is pending.                *)
(***************************************************************************)
C21_LayoutWritesNeverInterleave ==
  upserts # {} => clusterOp.pc = "idle"

(***************************************************************************)
(* C22: loadData calls that overlap all complete, and the page holds the   *)
(* results of the call that resolved last, whichever was issued first: no  *)
(* pending call is dropped, the step in which a call resolves sets the     *)
(* page's stakeholders, relationships and layouts to the results of that   *)
(* call, and no other step changes them.                                   *)
(***************************************************************************)
C22_LastResolvedLoadWins ==
  [][
    /\ \A l \in loads :
         \/ l \in loads'
         \/ ~l.fetched /\ \E m \in loads' :
                            m.fetched /\ m.owner = l.owner /\ m.call = l.call
         \/ /\ l.fetched
            /\ stakeholders' = l.stakeholders
            /\ relationships' = l.relationships
            /\ layouts' = l.layouts
    /\ (\A l \in loads : l.fetched => l \in loads')
         => UNCHANGED <<stakeholders, relationships, layouts>>
  ]_vars

\* two drops were saved and each called loadData; both calls have resolved,
\* and the page holds layouts that are not the store's: the call that read
\* the store before the second write resolved last
C22_Witness ==
  /\ Len(drops) = 2
  /\ \A i \in 1..2 : drops[i].result = "saved" /\ drops[i].reloaded
  /\ loads = {} /\ upserts = {}
  /\ layouts # MapLayouts

(***************************************************************************)
(* C23: at most one cytoscape instance is alive for the mounted            *)
(* GraphCanvas: every run of the effect destroys the instance of the       *)
(* previous run and clears cyRef before it builds a new one, so the        *)
(* instances created and not destroyed are the one cyRef holds, if any;    *)
(* after unmount none is alive.                                            *)
(***************************************************************************)
C23_AtMostOneLiveInstance ==
  /\ cy.instances = IF cy.live THEN 1 ELSE 0
  /\ ~pageMounted => cy.instances = 0

\* a stakeholder was archived and the reload changed the stakeholders prop
\* (the graph was rebuilt), then the page was unmounted: no instance is left
C23_Witness ==
  /\ ~pageMounted /\ ~loading
  /\ Len(stakeholders) = 3
  /\ cy.instances = 0 /\ ~cy.live

C25_SavedDropIsInPageLayoutsAtOnce ==
  \A i \in DOMAIN drops :
    LET row == drops[i].row
        n == row.stakeholder_id
    IN  (/\ drops[i].result = "saved"
         /\ \A j \in DOMAIN drops : j > i => drops[j].row.stakeholder_id # n)
          => /\ row \in layouts
             /\ (cy.live /\ n \in Range(cy.nodes)) => cy.position[n] = Pos(row.x, row.y)

(***************************************************************************)
(* C26: the layout entries of the store change only when a drag-end        *)
(* upsert or a cluster batch upsert is served, and then only the entries   *)
(* of the upserted rows; loads, renders, filters, taps, context menus and  *)
(* archives write none, and no step removes the entry of a stakeholder.    *)
(***************************************************************************)
C26_OnlyUpsertsWriteLayouts ==
  [][
    /\ dbLayouts' # dbLayouts =>
         \/ \E u \in upserts \ upserts' : dbLayouts' \ dbLayouts = {u.row}
         \/ /\ clusterOp.pc = "upsert" /\ clusterOp'.pc = "reload"
            /\ dbLayouts' \ dbLayouts \subseteq Range(clusterOp.rows)
    /\ \A l \in dbLayouts :
         \E m \in dbLayouts' : m.map_id = l.map_id /\ m.stakeholder_id = l.stakeholder_id
  ]_vars

\* the drop of s1 created its entry and the cluster relayout overwrote that of
\* s3, while s3 was selected and a filter was set
C26_Witness ==
  /\ \E l \in dbLayouts : l.stakeholder_id = "s1" /\ l.x = 5000 /\ l.y = 5000
  /\ \E l \in dbLayouts : l.stakeholder_id = "s3" /\ l.x # 10000
  /\ selectedStakeholder.id = "s3"
  /\ minInfluence = 3

(***************************************************************************)
(* C27: in every state the focused node and the dimming of the live graph  *)
(* agree: when a node of the graph is focused, exactly the elements        *)
(* outside its closed 1-hop neighbourhood are dimmed, and when no node is  *)
(* focused no element is dimmed; also after the graph was rebuilt.         *)
(***************************************************************************)
C27_FocusAndDimmingAgree ==
  cy.live =>
    /\ focusedNodeId = Null => cy.dimmed = {}
    /\ focusedNodeId \in Range(cy.nodes)
         => cy.dimmed = CyElements(cy) \ ClosedNeighborhood(cy, focusedNodeId)

(***************************************************************************)
(* C28: while at least one company of the company list is selected, no     *)
(* stakeholder of a company that is not selected (the user deselected it   *)
(* and did not select it again) is a node of the map, after any sequence   *)
(* of filter toggles, archives and reloads.                                *)
(***************************************************************************)
C28_DeselectedCompanyIsNotRendered ==
  (cy.live /\ selectedCompanies \cap companyList(stakeholders) # {}) =>
    \A s \in Range(cy.nodes) : company_id(s) \in selectedCompanies

(***************************************************************************)
(* C29: when the same node was released twice and both persists have       *)
(* succeeded, the store's entry for that stakeholder holds the             *)
(* coordinates of the later release, whichever upsert was served first.    *)
(***************************************************************************)
C29_LaterReleaseIsStored ==
  \A i, j \in DOMAIN drops :
    (/\ i < j /\ j = Len(drops)
     /\ drops[i].row.stakeholder_id = drops[j].row.stakeholder_id
     /\ drops[i].result = "saved" /\ drops[j].result = "saved")
      => {l \in dbLayouts : l.stakeholder_id = drops[j].row.stakeholder_id} = {drops[j].row}

(***************************************************************************)
(* C30: the clustering flag is true exactly while a clusterByCompany       *)
(* operation is in flight, so that the button is disabled and no second    *)
(* operation starts; a press on the button with no stakeholders or while   *)
(* clustering sends no request and leaves the flag as it is; and every     *)
(* operation that was started ends with the flag false, whether its        *)
(* upsert or the reload that follows succeeds or fails.                    *)
(***************************************************************************)
C30_ClusteringFlagFollowsOperation ==
  /\ [](clustering <=> clusterOp.pc # "idle")
  /\ [][pressed' = "cluster" =>
          IF clustering \/ Len(stakeholders) = 0
            THEN /\ issued' = <<>>
                 /\ clustering' = clustering
                 /\ clusterOp' = clusterOp
                 /\ dbLayouts' = dbLayouts
            ELSE /\ clustering' /\ clusterOp'.pc = "upsert"
                 /\ Len(issued') = 1 /\ issued'[1].op = "upsert"]_vars
  /\ (clusterOp.pc # "idle") ~> (~clustering /\ clusterOp.pc = "idle")

\* a relayout whose reload failed to read the stakeholders has ended: the flag
\* is false, the page has no stakeholders, and the button was pressed again
C30_Witness ==
  /\ ~clustering /\ clusterOp.pc = "idle"
  /\ Len(stakeholders) = 0 /\ ~loading
  /\ dbLayouts # InitialLayouts
  /\ pressed = "cluster" /\ issued = <<>>

====
